---- MODULE Spec2Model ----
(***************************************************************************)
(* State-machine model of the PowerSync E2EE todo application:             *)
(*   - the key registry (table e2ee_keys) and the DEK lifecycle manager    *)
(*     (ensureDEKWrapped) with its two callers, App's NewListCard onCreate *)
(*     handler and TodoList's DEK init effect;                             *)
(*   - the TodoList component (items, live query, add / toggle / remove)   *)
(*     over the synced table todos, the CRUD upload queue and the upload   *)
(*     connector;                                                          *)
(*   - the encrypted-table / plaintext-mirror synchronizer;                *)
(*   - the payload cipher, the mirror query hook and the schema statements.*)
(* The specifications share the variables: SpecKeyring, Spec (the TodoList *)
(* application), SpecMirror, SpecUnlock, SpecList, SpecCipher, SpecQuery   *)
(* SpecSchema, SpecUpload (the upload connector on queues of transactions  *)
(* of several operations), SpecUploadLive (the same, fair and without      *)
(* upstream failures), SpecItems (the displayed list of an opened list)    *)
(* and SpecSelect (the live query's statement on any table).               *)
(***************************************************************************)
EXTENDS Integers, Sequences, FiniteSets, TLC

VARIABLES
  authUser,      \* the auth provider's current user id, or NULL
  ready,         \* App: ready
  useWebAuthn,   \* App: useWebAuthn
  password,      \* App: password
  activeKeyId,   \* App: activeKeyId
  create,        \* App: the async bodies started by NewListCard onCreate
  e2ee_keys,     \* table e2ee_keys: a sequence of rows
  call,          \* ensureDEKWrapped calls, one slot per caller
  inFlight,      \* the in-flight guard: set of <<userId, providerKind>>
  rand,          \* random draws made so far (DEKs, salts, nonces, ids)
  initPending,   \* TodoList: the DEK init effect is scheduled to run
  init,          \* TodoList: runs of the DEK init effect
  userId,        \* TodoList: userId
  dataCrypto,    \* TodoList: dataCrypto (the DEK held in memory), or NULL
  initInFlight,  \* TodoList: initInFlight.current
  dekReadyRef,   \* TodoList: dekReadyRef.current
  ps_crud,       \* the upload queue: a sequence of CRUD transactions
  clock,         \* the wall clock, in milliseconds
  bucketId,      \* TodoList: bucketId
  todos,         \* table todos: a set of rows, one per id
  items,         \* TodoList: items, the displayed list
  op,            \* TodoList: running addTodo / toggleCompleted / removeTodo calls
  client,        \* TokenConnector: an upstream client is configured
  upl,           \* TokenConnector: the running uploadData call
  upstream,      \* the upstream tables: a set of records
  sent,          \* history: every record uploadData has sent upstream
  uplog,         \* history: what the uploadData calls have done so far
  enc,           \* mirror pair: the encrypted table, a set of rows, one per id
  mirror,        \* mirror pair: the plaintext mirror table, a set of rows
  dek,           \* the session's DEK context, NoKey while locked
  chan,          \* change notifications emitted and not yet processed
  wseq,          \* commits made to the encrypted table so far
  halted,        \* the notification subscriber loop was ended by an exception
  origin,        \* history: who wrote the committed state of each id
  ooo,           \* history: ids a notification was processed out of order for
  last,          \* what the last call of a write helper returned to its caller
  probe,         \* a cipher call under test: its arguments and its results
  query,         \* a useEncryptedQuery call: its args, statement, parameters, rows
  schema,        \* the local database's schema: its tables and indexes
  ddlRuns,       \* history: executions of the schema statements so far
  report,        \* history: the last failed write of a handler and whether it was thrown
  caught,        \* history: the last error the DEK init effect caught, or NULL
  live,          \* TodoList: the live query's data (rows) and isFetching
  dec,           \* TodoList: runs of the decrypt effect and of refreshFromServer
  logKeyRef      \* TodoList: logKeyRef.current, the counts the decrypt effect logged last

appVars == <<authUser, ready, useWebAuthn, password, activeKeyId, create>>
keyVars == <<e2ee_keys, call, inFlight, rand, ps_crud, clock>>
initVars == <<initPending, init, userId, dataCrypto, initInFlight, dekReadyRef>>
\* everything an ensureDEKWrapped step leaves alone besides the registry
todoVars == <<todos, items, op>>
syncVars == <<client, upl, upstream, sent, uplog>>
mirrorVars == <<enc, mirror, dek, chan, wseq, halted, origin, ooo, last>>
otherVars == <<todoVars, syncVars, mirrorVars>>
callerVars == <<appVars, initVars, bucketId, otherVars>>
\* the state of the parts that have a specification of their own
listVars == <<live, dec, logKeyRef>>
sideVars == <<probe, query, schema, ddlRuns>>
histVars == <<report, caught>>
auxVars == <<sideVars, histVars, listVars>>
vars == <<appVars, keyVars, initVars, bucketId, otherVars, auxVars>>

-----------------------------------------------------------------------------
(* Bounds of the model *)

\* random draws (DEKs, salts, nonces) a behaviour may make
MaxRand == 3
\* milliseconds the wall clock may advance
MaxClock == 1
\* commits made to the encrypted table of the mirror pair
MaxCommits == 3
\* executions of the schema statements
MaxRuns == 3

-----------------------------------------------------------------------------
(* Values *)

NULL == "null"
Users == {"u1", "u2"}
Secrets == {"s1", "s2"}
Slugs == {"a"}
Kinds == {"password", "webauthn"}
CreateSlots == {"a1", "a2"}
InitSlots == {"t1", "t2"}
Callers == CreateSlots \cup InitSlots

\* a symmetric key: derived from a secret and a salt, or a raw DEK
KdfKey(secret, salt) == [t |-> "kdf", s |-> secret, n |-> salt]
DekKey(n) == [t |-> "dek", s |-> "", n |-> n]
NoKey == [t |-> "none", s |-> "", n |-> 0]

\* bytesToBase64 / base64ToBytes
bytesToBase64(b) == [b64 |-> b]
base64ToBytes(s) == s.b64

\* the AEAD ciphertext of plain under key and nonce, bound to aad; bytes that are
\* not encrypted are written as sealed under no key
Seal(key, nonce, plain, aad) == [k |-> key, n |-> nonce, p |-> plain, a |-> aad]
Clear(plain) == Seal(NoKey, 0, plain, NULL)

-----------------------------------------------------------------------------
(* Cipher envelope and crypto providers *)

UNDEF == "undefined"
\* the base64 of no bytes (""), and a NULL base64 column
EmptyB64 == [b64 |-> 0]
NullB64 == [b64 |-> -1]
WRAP_AAD == "dek-wrap"

CipherEnvelope(alg, aad, saltB64, nB64, cB64) ==
  [header |-> [v |-> 1, alg |-> alg, aad |-> aad, kdf |-> [saltB64 |-> saltB64]],
   nB64 |-> nB64, cB64 |-> cB64]

\* a ?? b
Coalesce(a, b) == IF a = NULL \/ a = UNDEF THEN b ELSE a

\* a conversion that reads the aad with || and so drops an empty one
columnsToEnvelopeFalsyAad(args) ==
  [header |-> [v |-> 1, alg |-> args.alg,
               aad |-> IF args.aad \in {NULL, UNDEF, ""} THEN UNDEF ELSE args.aad,
               kdf |-> [saltB64 |-> IF args.kdf_salt_b64 = NullB64 THEN EmptyB64
                                    ELSE args.kdf_salt_b64]],
   nB64 |-> args.nonce_b64, cB64 |-> args.cipher_b64]

columnsToEnvelope(args) ==
  [header |-> [v |-> 1, alg |-> args.alg, aad |-> Coalesce(args.aad, UNDEF),
               kdf |-> [saltB64 |-> IF args.kdf_salt_b64 = NullB64 THEN EmptyB64
                                    ELSE args.kdf_salt_b64]],
   nB64 |-> args.nonce_b64, cB64 |-> args.cipher_b64]

envelopeToColumns(env) ==
  [alg |-> env.header.alg, aad |-> Coalesce(env.header.aad, NULL),
   nonce_b64 |-> env.nB64, cipher_b64 |-> env.cB64,
   kdf_salt_b64 |-> env.header.kdf.saltB64]

\* createPasswordCrypto / createWebAuthnCrypto: the provider object
CryptoProvider(kind, secret) == [kind |-> kind, secret |-> secret]
WrapAlg(kind) == IF kind = "password" THEN "password/kdf" ELSE "webauthn/prf"

\* provider.encrypt(plain, aad) with the random draw r (salt and nonce)
ProviderEncrypt(prov, plain, aad, r) ==
  CipherEnvelope(WrapAlg(prov.kind), aad, bytesToBase64(r), bytesToBase64(r),
                 bytesToBase64(Seal(KdfKey(prov.secret, r), r, plain, aad)))

\* a decrypt that does not verify the authentication tag
ProviderDecryptNoTag(prov, env, aad) ==
  [ok |-> TRUE, plain |-> base64ToBytes(env.cB64).p]

\* provider.decrypt(env, aad): the key is re-derived from the envelope's salt
ProviderDecrypt(prov, env, aad) ==
  LET ct == base64ToBytes(env.cB64)
      key == KdfKey(prov.secret, base64ToBytes(env.header.kdf.saltB64))
  IN IF ct.k = key /\ ct.n = base64ToBytes(env.nB64) /\ ct.a = aad
     THEN [ok |-> TRUE, plain |-> ct.p]
     ELSE [ok |-> FALSE, plain |-> NoKey]

-----------------------------------------------------------------------------
(* PowerSync managed tables: a local write also queues a CRUD transaction *)

CrudEntry(type, table, id, opData) == [op |-> type, table |-> table, id |-> id, opData |-> opData]

KeyOpData(row) ==
  [user_id |-> row.user_id, provider |-> row.provider, alg |-> row.alg, aad |-> row.aad,
   nonce_b64 |-> row.nonce_b64, cipher_b64 |-> row.cipher_b64,
   kdf_salt_b64 |-> row.kdf_salt_b64, created_at |-> row.created_at]

-----------------------------------------------------------------------------
(* Key registry (table e2ee_keys) and the DEK lifecycle manager *)

KeyId(u, m, s) == [u |-> u, m |-> m, s |-> s]
NoKeyId == KeyId(NULL, NULL, NULL)
KeyIds == {KeyId(u, m, s) : u \in Users, m \in Kinds, s \in Slugs}

WrappedKeyRecord(id, uid, kind, env, now) ==
  LET c == envelopeToColumns(env)
  IN [id |-> id, user_id |-> uid, provider |-> kind, alg |-> c.alg, aad |-> c.aad,
      nonce_b64 |-> c.nonce_b64, cipher_b64 |-> c.cipher_b64,
      kdf_salt_b64 |-> c.kdf_salt_b64, created_at |-> now]

NoRow == WrappedKeyRecord(NoKeyId, NULL, NULL,
                          CipherEnvelope(NULL, NULL, EmptyB64, EmptyB64,
                                         bytesToBase64(Clear(NoKey))), 0)

\* a lookup that compares the key id with the wrong column
KeyRowsForWrongColumn(uid, kind, keyId) ==
  SelectSeq(e2ee_keys, LAMBDA r : r.user_id = uid /\ r.provider = kind /\ r.id.m = keyId.u)

\* findWrappedKey(userId, providerKind, keyId): the matching rows, in table order
KeyRowsFor(uid, kind, keyId) ==
  SelectSeq(e2ee_keys, LAMBDA r : r.user_id = uid /\ r.provider = kind /\ r.id = keyId)

findWrappedKey(uid, kind, keyId) ==
  LET rs == KeyRowsFor(uid, kind, keyId)
  IN IF Len(rs) = 0 THEN NoRow ELSE rs[1]

\* busy is history: another call for the same key was running when this one began
IdleCall ==
  [pc |-> "idle", uid |-> NULL, kind |-> NULL, prov |-> CryptoProvider(NULL, NULL),
   keyId |-> NoKeyId, row |-> NoRow, dek |-> NoKey, err |-> NULL, busy |-> FALSE]

\* the caller invokes ensureDEKWrapped(db, uid, kind, prov, keyId)
StartCall(uid, kind, prov, keyId) ==
  [IdleCall EXCEPT !.pc = "start", !.uid = uid, !.kind = kind, !.prov = prov,
                   !.keyId = keyId,
                   !.busy = \E d \in DOMAIN call :
                              /\ call[d].pc \in {"start", "lookup", "unwrap", "wrap", "insert"}
                              /\ call[d].uid = uid /\ call[d].kind = kind
                              /\ call[d].keyId = keyId]

\* a guard that is never seen held
GuardNeverHeld(uid, kind) == TRUE

\* the in-flight guard of (userId, providerKind) is free
GuardFree(uid, kind) == <<uid, kind>> \notin inFlight

\* step 4: take the in-flight guard, or wait for the call that holds it
EnsureAcquire(c) ==
  /\ call[c].pc = "start"
  /\ GuardFree(call[c].uid, call[c].kind)
  /\ inFlight' = inFlight \cup {<<call[c].uid, call[c].kind>>}
  /\ call' = [call EXCEPT ![c].pc = "lookup"]
  /\ UNCHANGED <<e2ee_keys, rand, ps_crud, clock, callerVars>>
  /\ UNCHANGED auxVars

\* step 1: look the wrapped key up
EnsureLookup(c) ==
  /\ call[c].pc = "lookup"
  /\ LET row == findWrappedKey(call[c].uid, call[c].kind, call[c].keyId)
     IN call' = [call EXCEPT ![c].row = row,
                             ![c].pc = IF row = NoRow THEN "wrap" ELSE "unwrap"]
  /\ UNCHANGED <<e2ee_keys, inFlight, rand, ps_crud, clock, callerVars>>
  /\ UNCHANGED auxVars

\* step 2: found, decrypt its envelope with the caller's provider
EnsureUnwrap(c) ==
  /\ call[c].pc = "unwrap"
  /\ LET r == call[c].row
         res == ProviderDecrypt(call[c].prov, columnsToEnvelope(r), r.aad)
     IN call' = [call EXCEPT ![c].pc = IF res.ok THEN "ok" ELSE "err",
                             ![c].dek = res.plain,
                             ![c].err = IF res.ok THEN NULL ELSE "DecryptionFailed"]
  /\ inFlight' = inFlight \ {<<call[c].uid, call[c].kind>>}
  /\ UNCHANGED <<e2ee_keys, rand, ps_crud, clock, callerVars>>
  /\ UNCHANGED auxVars

\* step 3a: not found, generate 32 random bytes and encrypt them
EnsureWrap(c) ==
  /\ call[c].pc = "wrap"
  /\ rand < MaxRand
  /\ rand' = rand + 1
  /\ LET fresh == DekKey(rand + 1)
         env == ProviderEncrypt(call[c].prov, fresh, WRAP_AAD, rand + 1)
     IN call' = [call EXCEPT ![c].pc = "insert", ![c].dek = fresh,
                             ![c].row = WrappedKeyRecord(call[c].keyId, call[c].uid,
                                                         call[c].kind, env, clock)]
  /\ UNCHANGED <<e2ee_keys, inFlight, ps_crud, clock, callerVars>>
  /\ UNCHANGED auxVars

\* insertWrappedKey(record): the row is written and queued for upload
insertWrappedKey(row) ==
  /\ e2ee_keys' = Append(e2ee_keys, row)
  /\ ps_crud' = Append(ps_crud, <<CrudEntry("PUT", "e2ee_keys", row.id, KeyOpData(row))>>)

\* step 3b: persist the new WrappedKeyRecord and return the DEK
EnsureInsert(c) ==
  /\ call[c].pc = "insert"
  /\ insertWrappedKey(call[c].row)
  /\ call' = [call EXCEPT ![c].pc = "ok"]
  /\ inFlight' = inFlight \ {<<call[c].uid, call[c].kind>>}
  /\ UNCHANGED <<rand, clock, callerVars>>
  /\ UNCHANGED auxVars

EnsureStep(c) ==
  \/ EnsureAcquire(c)
  \/ EnsureLookup(c)
  \/ EnsureUnwrap(c)
  \/ EnsureWrap(c)
  \/ EnsureInsert(c)

\* the failures of the authenticator provider's ceremony
CeremonyErrors == {"CredentialUnavailable", "UserCancelled"}

\* steps 2 and 3a with the authenticator provider: the ceremony of its decrypt or
\* encrypt fails, and ensureDEKWrapped rejects with that error
EnsureCeremonyFail(c, err) ==
  /\ call[c].pc \in {"unwrap", "wrap"}
  /\ call[c].prov.kind = "webauthn"
  /\ call' = [call EXCEPT ![c].pc = "err", ![c].err = err]
  /\ inFlight' = inFlight \ {<<call[c].uid, call[c].kind>>}
  /\ UNCHANGED <<e2ee_keys, rand, ps_crud, clock, callerVars>>
  /\ UNCHANGED auxVars

-----------------------------------------------------------------------------
(* App: authentication, list creation and opening *)

EMPTY == ""
PasskeySecret == "passkey"
ProviderKind == IF useWebAuthn THEN "webauthn" ELSE "password"

\* App's cryptoProvider memo (the TodoList is rendered only when it is not null)
cryptoProvider ==
  IF ~ready THEN CryptoProvider(NULL, NULL)
  ELSE IF useWebAuthn THEN CryptoProvider("webauthn", PasskeySecret)
  ELSE CryptoProvider("password", password)

\* the dependencies of TodoList's DEK init effect: [db, crypto, providerKind, activeKeyId]
InitDeps == <<cryptoProvider, ProviderKind, activeKeyId>>

\* the effect is scheduled on mount and whenever a dependency changed
ScheduleInit ==
  initPending' = (initPending \/ (ready' /\ (~ready \/ InitDeps' # InitDeps)))

\* TodoList's effect on [activeKeyId]: when it is set, bucketId is locked to it
LockBucket ==
  bucketId' = IF ready' /\ activeKeyId' # NoKeyId /\ (~ready \/ activeKeyId' # activeKeyId)
              THEN activeKeyId' ELSE bucketId

IdleCreate == [pc |-> "idle", method |-> NULL, secret |-> EMPTY, keyId |-> NoKeyId]

\* x <= y on slot names
SlotLeq(x, y) == x = y \/ x \in {"a1", "t1", "o1"}

FirstIdle(slots, f) ==
  IF \A x \in slots : f[x].pc # "idle" THEN NULL
  ELSE CHOOSE x \in slots : f[x].pc = "idle" /\ \A y \in slots : f[y].pc = "idle" => SlotLeq(x, y)

\* onAuthStateChange: a session starts
SignIn(u) ==
  /\ authUser = NULL
  /\ authUser' = u
  /\ UNCHANGED <<ready, useWebAuthn, password, activeKeyId, create, keyVars, initVars>>
  /\ UNCHANGED <<bucketId, otherVars>>
  /\ UNCHANGED auxVars

\* Sign Out
SignOut ==
  /\ authUser # NULL
  /\ authUser' = NULL
  /\ UNCHANGED <<ready, useWebAuthn, password, activeKeyId, create, keyVars, initVars>>
  /\ UNCHANGED <<bucketId, otherVars>>
  /\ UNCHANGED auxVars

\* NewListCard onCreate(method, secret, listName), on the setup screen
OnCreate(c, method, secret, slug) ==
  /\ ~ready
  /\ c = FirstIdle(CreateSlots, create)
  /\ LET keyId == KeyId(authUser, method, slug)
     IN /\ activeKeyId' = keyId
        /\ IF authUser # NULL /\ method = "password"
           THEN /\ create' = [create EXCEPT ![c] = [pc |-> "ensure", method |-> method,
                                                    secret |-> secret, keyId |-> keyId]]
                /\ call' = [call EXCEPT ![c] = StartCall(authUser, method,
                                                  CryptoProvider("password", secret), keyId)]
           ELSE /\ create' = [create EXCEPT ![c] = [pc |-> "finish", method |-> method,
                                                    secret |-> secret, keyId |-> keyId]]
                /\ call' = call
  /\ UNCHANGED <<authUser, ready, useWebAuthn, password>>
  /\ UNCHANGED <<e2ee_keys, inFlight, rand, ps_crud, clock, initVars>>
  /\ UNCHANGED <<bucketId, otherVars>>
  /\ UNCHANGED auxVars

\* onCreate's async body after the pre-create settled (a failure is only logged)
CreateFinish(c) ==
  /\ \/ create[c].pc = "finish"
     \/ create[c].pc = "ensure" /\ call[c].pc \in {"ok", "err"}
  /\ useWebAuthn' = (create[c].method = "webauthn")
  /\ password' = IF create[c].method = "webauthn" THEN password ELSE create[c].secret
  /\ ready' = TRUE
  /\ create' = [create EXCEPT ![c] = IdleCreate]
  /\ call' = [call EXCEPT ![c] = IdleCall]
  /\ UNCHANGED <<authUser, activeKeyId, e2ee_keys, inFlight, rand, ps_crud, clock>>
  /\ UNCHANGED <<init, userId, dataCrypto, initInFlight, dekReadyRef>>
  /\ ScheduleInit
  /\ LockBucket
  /\ UNCHANGED otherVars
  /\ UNCHANGED auxVars

\* OpenListCard lists the user's wrapped keys; Open calls App's onOpen
OnOpen(i, secret) ==
  /\ ~ready
  /\ i \in 1..Len(e2ee_keys)
  /\ e2ee_keys[i].user_id = authUser
  /\ activeKeyId' = e2ee_keys[i].id
  /\ useWebAuthn' = (e2ee_keys[i].provider = "webauthn")
  /\ password' = IF e2ee_keys[i].provider = "webauthn" THEN password ELSE secret
  /\ ready' = TRUE
  /\ UNCHANGED <<authUser, create, keyVars>>
  /\ UNCHANGED <<init, userId, dataCrypto, initInFlight, dekReadyRef>>
  /\ ScheduleInit
  /\ LockBucket
  /\ UNCHANGED otherVars
  /\ UNCHANGED auxVars

-----------------------------------------------------------------------------
(* TodoList: the DEK init effect *)

IdleInit ==
  [pc |-> "idle", crypto |-> CryptoProvider(NULL, NULL), kind |-> NULL,
   keyId |-> NoKeyId, uid |-> NULL]

\* the effect runs: its closure captures the props of this render
InitStart(e) ==
  /\ ready
  /\ initPending
  /\ e = FirstIdle(InitSlots, init)
  /\ initPending' = FALSE
  /\ init' = [init EXCEPT ![e] = [pc |-> "getUser", crypto |-> cryptoProvider,
                                  kind |-> ProviderKind, keyId |-> activeKeyId,
                                  uid |-> NULL]]
  /\ UNCHANGED <<appVars, keyVars, userId, dataCrypto, initInFlight, dekReadyRef>>
  /\ UNCHANGED <<bucketId, otherVars>>
  /\ UNCHANGED auxVars

\* getCurrentUserId resolved, in an effect without the guard
InitGetUserNoGuard(e) ==
  /\ init[e].pc = "getUser"
  /\ userId' = authUser
  /\ IF authUser = NULL
     THEN /\ init' = [init EXCEPT ![e] = IdleInit]
          /\ UNCHANGED initInFlight
     ELSE /\ init' = [init EXCEPT ![e].pc = "counts", ![e].uid = authUser]
          /\ initInFlight' = TRUE
  /\ UNCHANGED <<appVars, keyVars, initPending, dataCrypto, dekReadyRef>>
  /\ UNCHANGED <<bucketId, otherVars>>
  /\ UNCHANGED auxVars

\* getCurrentUserId resolved; the guard against duplicate / in-flight init
InitGetUser(e) ==
  /\ init[e].pc = "getUser"
  /\ userId' = authUser
  /\ IF authUser = NULL \/ dekReadyRef \/ initInFlight
     THEN /\ init' = [init EXCEPT ![e] = IdleInit]
          /\ UNCHANGED initInFlight
     ELSE /\ init' = [init EXCEPT ![e].pc = "counts", ![e].uid = authUser]
          /\ initInFlight' = TRUE
  /\ UNCHANGED <<appVars, keyVars, initPending, dataCrypto, dekReadyRef>>
  /\ UNCHANGED <<bucketId, otherVars>>
  /\ UNCHANGED auxVars

\* the key count query resolved; ensureDEKWrapped is called
InitCounts(e) ==
  /\ init[e].pc = "counts"
  /\ init' = [init EXCEPT ![e].pc = "ensure"]
  /\ call' = [call EXCEPT ![e] = StartCall(init[e].uid, init[e].kind, init[e].crypto,
                                           init[e].keyId)]
  /\ UNCHANGED <<appVars, e2ee_keys, inFlight, rand, ps_crud, clock>>
  /\ UNCHANGED <<initPending, userId, dataCrypto, initInFlight, dekReadyRef>>
  /\ UNCHANGED <<bucketId, otherVars>>
  /\ UNCHANGED auxVars

\* the key count query rejected: catch, then finally
InitCountsFail(e) ==
  /\ init[e].pc = "counts"
  /\ init' = [init EXCEPT ![e] = IdleInit]
  /\ dataCrypto' = NoKey
  /\ caught' = "StorageFailure"
  /\ initInFlight' = FALSE
  /\ UNCHANGED <<appVars, keyVars, initPending, userId, dekReadyRef>>
  /\ UNCHANGED <<bucketId, otherVars>>
  /\ UNCHANGED <<sideVars, report, listVars>>

\* a settle without the finally block: a failure leaves initInFlight.current set
InitSettleNoFinally(e) ==
  /\ init[e].pc = "ensure"
  /\ call[e].pc \in {"ok", "err"}
  /\ IF call[e].pc = "ok"
     THEN dataCrypto' = call[e].dek /\ dekReadyRef' = TRUE /\ UNCHANGED caught
          /\ initInFlight' = FALSE
     ELSE dataCrypto' = NoKey /\ UNCHANGED dekReadyRef /\ caught' = call[e].err
          /\ UNCHANGED initInFlight
  /\ init' = [init EXCEPT ![e] = IdleInit]
  /\ call' = [call EXCEPT ![e] = IdleCall]
  /\ UNCHANGED <<appVars, e2ee_keys, inFlight, rand, ps_crud, clock, initPending, userId>>
  /\ UNCHANGED <<bucketId, otherVars>>
  /\ UNCHANGED <<sideVars, report, listVars>>

\* ensureDEKWrapped settled: try / catch / finally
InitSettle(e) ==
  /\ init[e].pc = "ensure"
  /\ call[e].pc \in {"ok", "err"}
  /\ IF call[e].pc = "ok"
     THEN dataCrypto' = call[e].dek /\ dekReadyRef' = TRUE /\ UNCHANGED caught
     ELSE dataCrypto' = NoKey /\ UNCHANGED dekReadyRef /\ caught' = call[e].err
  /\ initInFlight' = FALSE
  /\ init' = [init EXCEPT ![e] = IdleInit]
  /\ call' = [call EXCEPT ![e] = IdleCall]
  /\ UNCHANGED <<appVars, e2ee_keys, inFlight, rand, ps_crud, clock, initPending, userId>>
  /\ UNCHANGED <<bucketId, otherVars>>
  /\ UNCHANGED <<sideVars, report, listVars>>

-----------------------------------------------------------------------------
(* DataCrypto: the todo payload cipher under the raw DEK *)

ALG == "xchacha20poly1305/raw"
TODO_AAD == "todo-v1"
Texts == {"a"}

\* JSON.stringify({ text, completed }) as UTF-8 bytes
Payload(text, completed) == [text |-> text, completed |-> completed]

\* aad ? encode(aad) : null
AdOf(aad) == IF aad \in {NULL, UNDEF, EMPTY} THEN NULL ELSE aad

\* an encrypt that writes the key where the ciphertext belongs
DataEncryptKeyForCipher(key, plain, aad, r) ==
  CipherEnvelope(ALG, aad, EmptyB64, bytesToBase64(r), bytesToBase64(Clear(key)))

\* DataCrypto.encrypt(plain, aad) with the random nonce r
DataEncrypt(key, plain, aad, r) ==
  CipherEnvelope(ALG, aad, EmptyB64, bytesToBase64(r),
                 bytesToBase64(Seal(key, r, plain, AdOf(aad))))

\* DataCrypto.decrypt(env, aad)
DataDecrypt(key, env, aad) ==
  LET ct == base64ToBytes(env.cB64)
      ad == AdOf(Coalesce(aad, env.header.aad))
  IN IF ct.k = key /\ ct.n = base64ToBytes(env.nB64) /\ ct.a = ad
     THEN [ok |-> TRUE, plain |-> ct.p]
     ELSE [ok |-> FALSE, plain |-> Payload(EMPTY, FALSE)]

-----------------------------------------------------------------------------
(* Table todos and TodoList's add / toggle / remove *)

\* bucketId "" and a NULL bucket_id column
EmptyBucket == KeyId(EMPTY, EMPTY, EMPTY)
NullBucket == NoKeyId

\* new Date().toISOString(): the clock's millisecond as a string
toISOString(t) == [iso |-> t]

\* one addTodo / toggleCompleted / removeTodo call runs at a time
OpSlots == {"o1"}

NoEnv == CipherEnvelope(NULL, NULL, EmptyB64, EmptyB64, bytesToBase64(Clear(NoKey)))

IdleOp ==
  [pc |-> "idle", kind |-> NULL, id |-> 0, text |-> EMPTY, completed |-> FALSE,
   key |-> NoKey, uid |-> NULL, bucket |-> EmptyBucket, env |-> NoEnv, now |-> toISOString(0)]

Todo(id, text, completed, env, synced) ==
  [id |-> id, text |-> text, completed |-> completed, env |-> env, synced |-> synced]

\* an INSERT that also stores the text in a column of its own
InsertRowWithText(o) ==
  [id |-> o.id, user_id |-> o.uid,
   bucket_id |-> IF o.bucket = EmptyBucket THEN NullBucket ELSE o.bucket,
   alg |-> o.env.header.alg, aad |-> Coalesce(TODO_AAD, NULL),
   nonce_b64 |-> o.env.nB64, cipher_b64 |-> o.env.cB64,
   kdf_salt_b64 |-> o.env.header.kdf.saltB64,
   created_at |-> o.now, updated_at |-> o.now, text |-> o.text]

\* an INSERT that never stores the bucket
InsertRowNullBucket(o) ==
  [id |-> o.id, user_id |-> o.uid, bucket_id |-> NullBucket,
   alg |-> o.env.header.alg, aad |-> Coalesce(TODO_AAD, NULL),
   nonce_b64 |-> o.env.nB64, cipher_b64 |-> o.env.cB64,
   kdf_salt_b64 |-> o.env.header.kdf.saltB64,
   created_at |-> o.now, updated_at |-> o.now]

\* INSERT_SQL with addTodo's parameters
InsertRow(o) ==
  [id |-> o.id, user_id |-> o.uid,
   bucket_id |-> IF o.bucket = EmptyBucket THEN NullBucket ELSE o.bucket,
   alg |-> o.env.header.alg, aad |-> Coalesce(TODO_AAD, NULL),
   nonce_b64 |-> o.env.nB64, cipher_b64 |-> o.env.cB64,
   kdf_salt_b64 |-> o.env.header.kdf.saltB64,
   created_at |-> o.now, updated_at |-> o.now]

\* the SET columns of UPDATE_SQL with toggleCompleted's parameters
UpdateSet(o) ==
  [alg |-> o.env.header.alg, aad |-> Coalesce(TODO_AAD, NULL),
   nonce_b64 |-> o.env.nB64, cipher_b64 |-> o.env.cB64,
   kdf_salt_b64 |-> o.env.header.kdf.saltB64, updated_at |-> o.now]

\* r with the columns of set replaced
Merge(r, set) == [c \in DOMAIN r |-> IF c \in DOMAIN set THEN set[c] ELSE r[c]]

\* the opData of the PUT queued for a new row: every column but id
PutOpData(row) == [c \in DOMAIN row \ {"id"} |-> row[c]]

\* WHERE id = ? AND user_id = ?
RowsWhere(id, uid) == {r \in todos : r.id = id /\ r.user_id = uid}

MapItems(f(_)) == [i \in 1..Len(items) |-> f(items[i])]
HasItem(id) == \E i \in 1..Len(items) : items[i].id = id
ItemOf(id) == items[CHOOSE i \in 1..Len(items) : items[i].id = id]

\* the wall clock when it is read next: the same millisecond or a later one
Later(t) == {n \in t..(t + 1) : n <= MaxClock}

\* addTodo(): the guards, then dataCrypto.encrypt is awaited
AddTodo(o, text) ==
  /\ ready
  /\ o = FirstIdle(OpSlots, op)
  /\ dataCrypto # NoKey
  /\ rand < MaxRand
  /\ rand' = rand + 1
  /\ op' = [op EXCEPT ![o] =
              [IdleOp EXCEPT !.pc = "encrypted", !.kind = "add", !.id = rand + 1,
                             !.text = text, !.completed = FALSE, !.key = dataCrypto,
                             !.uid = userId, !.bucket = bucketId,
                             !.env = DataEncrypt(dataCrypto, Payload(text, FALSE),
                                                 TODO_AAD, rand + 1)]]
  /\ UNCHANGED <<e2ee_keys, call, inFlight, ps_crud, clock>>
  /\ UNCHANGED <<appVars, initVars, bucketId, mirrorVars, todos, items, syncVars>>
  /\ UNCHANGED auxVars

\* addTodo after the encryption: the optimistic item, then the INSERT is issued
AddOptimistic(o) ==
  /\ op[o].pc = "encrypted" /\ op[o].kind = "add"
  /\ items' = <<Todo(op[o].id, op[o].text, FALSE, op[o].env, FALSE)>> \o items
  /\ \E now \in Later(clock) :
       /\ clock' = now
       /\ op' = [op EXCEPT ![o] = IF op[o].uid # NULL
                                  THEN [op[o] EXCEPT !.pc = "write", !.now = toISOString(now)]
                                  ELSE IdleOp]
  /\ UNCHANGED <<e2ee_keys, call, inFlight, rand, ps_crud>>
  /\ UNCHANGED <<appVars, initVars, bucketId, mirrorVars, todos, syncVars>>
  /\ UNCHANGED auxVars

\* db.execute(INSERT_SQL, ...) commits: the row and its queued PUT
AddInsert(o) ==
  /\ op[o].pc = "write" /\ op[o].kind = "add"
  /\ LET row == InsertRow(op[o])
     IN /\ todos' = todos \cup {row}
        /\ ps_crud' = Append(ps_crud, <<CrudEntry("PUT", "todos", row.id, PutOpData(row))>>)
  /\ op' = [op EXCEPT ![o].pc = "written"]
  /\ UNCHANGED <<e2ee_keys, call, inFlight, rand, clock>>
  /\ UNCHANGED <<appVars, initVars, bucketId, mirrorVars, items, syncVars>>
  /\ UNCHANGED auxVars

\* the write resolved: the item is marked synced
MarkSynced(o) ==
  /\ op[o].pc = "written" /\ op[o].kind \in {"add", "toggle"}
  /\ items' = MapItems(LAMBDA t : IF t.id = op[o].id THEN [t EXCEPT !.synced = TRUE] ELSE t)
  /\ op' = [op EXCEPT ![o] = IdleOp]
  /\ UNCHANGED <<keyVars, appVars, initVars, bucketId, mirrorVars, todos, syncVars>>
  /\ UNCHANGED auxVars

\* what a handler does with a rejected db.execute: addTodo awaits it unguarded,
\* toggleCompleted and removeTodo await it inside try { } catch {}
NoReport == [id |-> 0, kind |-> "none", thrown |-> FALSE]
Report(o) == [id |-> o.id, kind |-> o.kind, thrown |-> o.kind = "add"]

\* db.execute rejects: addTodo throws, toggleCompleted and removeTodo swallow it
WriteFail(o) ==
  /\ op[o].pc = "write"
  /\ op' = [op EXCEPT ![o] = IdleOp]
  /\ report' = Report(op[o])
  /\ UNCHANGED <<keyVars, appVars, initVars, bucketId, mirrorVars, todos, items, syncVars>>
  /\ UNCHANGED <<sideVars, caught, listVars>>

\* toggleCompleted(id): the item as rendered, then dataCrypto.encrypt is awaited
ToggleCompleted(o, id) ==
  /\ ready
  /\ o = FirstIdle(OpSlots, op)
  /\ HasItem(id)
  /\ dataCrypto # NoKey
  /\ rand < MaxRand
  /\ rand' = rand + 1
  /\ LET t == ItemOf(id)
     IN op' = [op EXCEPT ![o] =
                 [IdleOp EXCEPT !.pc = "encrypted", !.kind = "toggle", !.id = id,
                                !.text = t.text, !.completed = ~t.completed,
                                !.key = dataCrypto, !.uid = userId, !.bucket = bucketId,
                                !.env = DataEncrypt(dataCrypto, Payload(t.text, ~t.completed),
                                                    TODO_AAD, rand + 1)]]
  /\ UNCHANGED <<e2ee_keys, call, inFlight, ps_crud, clock>>
  /\ UNCHANGED <<appVars, initVars, bucketId, mirrorVars, todos, items, syncVars>>
  /\ UNCHANGED auxVars

\* toggleCompleted after the encryption: the item is replaced, the UPDATE is issued
ToggleOptimistic(o) ==
  /\ op[o].pc = "encrypted" /\ op[o].kind = "toggle"
  /\ items' = MapItems(LAMBDA x : IF x.id = op[o].id
                                  THEN [x EXCEPT !.completed = op[o].completed,
                                                 !.env = op[o].env, !.synced = FALSE]
                                  ELSE x)
  /\ \E now \in Later(clock) :
       /\ clock' = now
       /\ op' = [op EXCEPT ![o] = IF op[o].uid # NULL
                                  THEN [op[o] EXCEPT !.pc = "write", !.now = toISOString(now)]
                                  ELSE IdleOp]
  /\ UNCHANGED <<e2ee_keys, call, inFlight, rand, ps_crud>>
  /\ UNCHANGED <<appVars, initVars, bucketId, mirrorVars, todos, syncVars>>
  /\ UNCHANGED auxVars

\* db.execute(UPDATE_SQL, ...) commits: each matching row and its queued PATCH
ToggleUpdate(o) ==
  /\ op[o].pc = "write" /\ op[o].kind = "toggle"
  /\ LET hit == RowsWhere(op[o].id, op[o].uid)
         set == UpdateSet(op[o])
     IN /\ todos' = (todos \ hit) \cup {Merge(r, set) : r \in hit}
        /\ ps_crud' = IF hit = {} THEN ps_crud
                      ELSE Append(ps_crud, <<CrudEntry("PATCH", "todos", op[o].id, set)>>)
  /\ op' = [op EXCEPT ![o].pc = "written"]
  /\ UNCHANGED <<e2ee_keys, call, inFlight, rand, clock>>
  /\ UNCHANGED <<appVars, initVars, bucketId, mirrorVars, items, syncVars>>
  /\ UNCHANGED auxVars

\* removeTodo(id): the item leaves the list, the DELETE is issued
RemoveTodo(o, id) ==
  /\ ready
  /\ o = FirstIdle(OpSlots, op)
  /\ HasItem(id)
  /\ items' = SelectSeq(items, LAMBDA x : x.id # id)
  /\ op' = [op EXCEPT ![o] = IF userId # NULL
                             THEN [IdleOp EXCEPT !.pc = "write", !.kind = "remove",
                                                 !.id = id, !.uid = userId]
                             ELSE IdleOp]
  /\ UNCHANGED <<keyVars, appVars, initVars, bucketId, mirrorVars, todos, syncVars>>
  /\ UNCHANGED auxVars

\* db.execute(DELETE_SQL, ...) commits: each matching row and its queued DELETE
RemoveDelete(o) ==
  /\ op[o].pc = "write" /\ op[o].kind = "remove"
  /\ LET hit == RowsWhere(op[o].id, op[o].uid)
     IN /\ todos' = todos \ hit
        /\ ps_crud' = IF hit = {} THEN ps_crud
                      ELSE Append(ps_crud, <<CrudEntry("DELETE", "todos", op[o].id,
                                                       [id |-> op[o].id])>>)
  /\ op' = [op EXCEPT ![o] = IdleOp]
  /\ UNCHANGED <<e2ee_keys, call, inFlight, rand, clock>>
  /\ UNCHANGED <<appVars, initVars, bucketId, mirrorVars, items, syncVars>>
  /\ UNCHANGED auxVars

-----------------------------------------------------------------------------
(* TodoList: the live query, the decrypt effect and refreshFromServer *)

\* rows of other devices that sync brings in: their ids and their one text
RemoteIds == {11, 12}
RemoteText == "b"

\* the rows in the order of ORDER BY created_at DESC (rows of one created_at by id)
Newest(S) ==
  CHOOSE r \in S : \A q \in S :
    (q.created_at.iso < r.created_at.iso) \/
    (q.created_at.iso = r.created_at.iso /\ q.id >= r.id)

RECURSIVE OrderByCreatedDesc(_)
OrderByCreatedDesc(S) ==
  IF S = {} THEN <<>> ELSE <<Newest(S)>> \o OrderByCreatedDesc(S \ {Newest(S)})

\* SELECT_BY_USER_OPTIONAL_BUCKET_SQL with [user, bucket]: a comparison with a NULL
\* bucket_id is not true
SELECT_BY_USER_OPTIONAL_BUCKET_SQL(user, bucket) ==
  LET wanted(r) == IF bucket = EmptyBucket THEN r.bucket_id ELSE bucket
  IN OrderByCreatedDesc({r \in todos : /\ r.user_id = user
                                       /\ r.bucket_id # NullBucket
                                       /\ wanted(r) = r.bucket_id})

\* SELECT_BY_USER_SQL with [user]
SELECT_BY_USER_SQL(user) == OrderByCreatedDesc({r \in todos : r.user_id = user})

\* the live query's parameters [userId ?? "", bucketId || ""] and its current result
LiveResult == SELECT_BY_USER_OPTIONAL_BUCKET_SQL(Coalesce(userId, EMPTY), bucketId)

IdleLive == [rows |-> <<>>, loaded |-> FALSE, isFetching |-> FALSE]

\* the watched query runs again: after a change of the table or of the parameters,
\* and first on mount; meanwhile the data is the previous one or empty
QueryFetch ==
  /\ ready
  /\ ~live.isFetching
  /\ ~live.loaded \/ live.rows # LiveResult
  /\ \E keep \in BOOLEAN :
       live' = [rows |-> IF keep THEN live.rows ELSE <<>>,
                loaded |-> live.loaded \/ ~keep, isFetching |-> TRUE]
  /\ UNCHANGED <<keyVars, callerVars, sideVars, histVars, dec, logKeyRef>>

\* the watched query delivers its result
QueryEmit ==
  /\ ready
  /\ live.isFetching
  /\ live' = [rows |-> LiveResult, loaded |-> TRUE, isFetching |-> FALSE]
  /\ UNCHANGED <<keyVars, callerVars, sideVars, histVars, dec, logKeyRef>>

\* sync applies a row another device wrote for the list, encrypted under key
Download(id, key) ==
  /\ authUser # NULL /\ activeKeyId # NoKeyId
  /\ \A r \in todos : r.id # id
  /\ todos' = todos \cup
       {InsertRow([IdleOp EXCEPT !.id = id, !.uid = authUser, !.bucket = activeKeyId,
                                 !.env = DataEncrypt(key, Payload(RemoteText, FALSE),
                                                     TODO_AAD, id)])}
  /\ UNCHANGED <<appVars, keyVars, initVars, bucketId, items, op, syncVars, mirrorVars>>
  /\ UNCHANGED auxVars

\* env.header.alg.includes("/raw")
IsRaw(alg) == alg = ALG

\* the envelope of a row, as both loops build it
RowEnvelope(r) ==
  columnsToEnvelope([alg |-> r.alg, aad |-> Coalesce(r.aad, NULL), nonce_b64 |-> r.nonce_b64,
                     cipher_b64 |-> r.cipher_b64, kdf_salt_b64 |-> r.kdf_salt_b64])

\* one pass of the decrypt effect's loop body: the row is skipped (locked), pushed
\* (decrypted) or counted as failed (the error is caught and logged)
DecryptTodo(r, key, crypto) ==
  LET env == RowEnvelope(r)
      res == IF IsRaw(env.header.alg)
             THEN DataDecrypt(key, env, Coalesce(r.aad, UNDEF))
             ELSE ProviderDecrypt(crypto, env, Coalesce(r.aad, UNDEF))
  IN IF IsRaw(env.header.alg) /\ key = NoKey THEN [out |-> "skip", item |-> <<>>]
     ELSE IF res.ok
     THEN [out |-> "ok", item |-> <<Todo(r.id, res.plain.text, res.plain.completed, env, TRUE)>>]
     ELSE [out |-> "fail", item |-> <<>>]

\* one pass of refreshFromServer's loop body: without a DEK the provider decrypts
RefreshTodo(r, key, crypto) ==
  LET env == RowEnvelope(r)
      res == IF IsRaw(env.header.alg) /\ key # NoKey
             THEN DataDecrypt(key, env, Coalesce(r.aad, UNDEF))
             ELSE ProviderDecrypt(crypto, env, Coalesce(r.aad, UNDEF))
  IN IF res.ok
     THEN [out |-> "ok", item |-> <<Todo(r.id, res.plain.text, res.plain.completed, env, TRUE)>>]
     ELSE [out |-> "fail", item |-> <<>>]

\* the decryptor a pass of the decrypt effect's loop body calls on row r
EffectDecryptor(r, key) ==
  IF IsRaw(RowEnvelope(r).header.alg) /\ key = NoKey THEN "none"
  ELSE IF IsRaw(RowEnvelope(r).header.alg) THEN "dataCrypto" ELSE "crypto"

\* the decryptor a pass of refreshFromServer's loop body calls on row r
RefreshDecryptor(r, key) ==
  IF IsRaw(RowEnvelope(r).header.alg) /\ key # NoKey THEN "dataCrypto" ELSE "crypto"

LoopBody(kind, r, key, crypto) ==
  IF kind = "refresh" THEN RefreshTodo(r, key, crypto) ELSE DecryptTodo(r, key, crypto)

NoBatch == [items |-> <<>>, ok |-> 0, fail |-> 0, threw |-> FALSE]

\* a loop without the try / catch around the decryption: the first failure ends it
\* and leaves the function
RECURSIVE DecryptBatchRethrow(_, _, _, _)
DecryptBatchRethrow(kind, rows, key, crypto) ==
  IF rows = <<>> THEN NoBatch
  ELSE LET one == LoopBody(kind, Head(rows), key, crypto)
           rest == DecryptBatchRethrow(kind, Tail(rows), key, crypto)
       IN IF one.out = "fail" THEN [NoBatch EXCEPT !.fail = 1, !.threw = TRUE]
          ELSE [items |-> one.item \o rest.items,
                ok |-> rest.ok + (IF one.out = "ok" THEN 1 ELSE 0),
                fail |-> rest.fail, threw |-> rest.threw]

\* for (const r of rows) { ... try { ... push, ok++ } catch { fail++ } }
RECURSIVE DecryptBatch(_, _, _, _)
DecryptBatch(kind, rows, key, crypto) ==
  IF rows = <<>> THEN NoBatch
  ELSE LET one == LoopBody(kind, Head(rows), key, crypto)
           rest == DecryptBatch(kind, Tail(rows), key, crypto)
       IN [items |-> one.item \o rest.items,
           ok |-> rest.ok + (IF one.out = "ok" THEN 1 ELSE 0),
           fail |-> rest.fail + (IF one.out = "fail" THEN 1 ELSE 0),
           threw |-> rest.threw]

\* slot d1 runs the decrypt effect, slot r1 runs refreshFromServer
DecSlots == {"d1", "r1"}
IdleDec ==
  [pc |-> "idle", kind |-> NULL, rows |-> <<>>, key |-> NoKey,
   crypto |-> CryptoProvider(NULL, NULL), isFetching |-> FALSE]

\* `${ok}-${fail}-${rows.length}-${isFetching ? 1 : 0}`
LogKey(ok, fail, n, fetching) == <<ok, fail, n, IF fetching THEN 1 ELSE 0>>
NoLogKey == <<>>

\* the decrypt effect runs with the values of this render; it returns at once
\* without data, and while a fetch shows no rows
DecryptStart(d) ==
  /\ ready
  /\ d = "d1" /\ dec[d].pc = "idle"
  /\ live.loaded
  /\ ~(live.isFetching /\ live.rows = <<>>)
  /\ dec' = [dec EXCEPT ![d] = [pc |-> "run", kind |-> "effect", rows |-> live.rows,
                                 key |-> dataCrypto, crypto |-> cryptoProvider,
                                 isFetching |-> live.isFetching]]
  /\ UNCHANGED <<keyVars, callerVars, sideVars, histVars, live, logKeyRef>>

\* the slot of an effect run that returned at once: the render it ran with
ReturnedDec == [IdleDec EXCEPT !.kind = "effect", !.isFetching = TRUE]

\* an effect without the test of isFetching: the loop over no rows, then setItems
DecryptReturnClears(d) ==
  /\ ready
  /\ d = "d1" /\ dec[d].pc = "idle"
  /\ live.loaded
  /\ live.isFetching /\ live.rows = <<>>
  /\ items' = SelectSeq(items, LAMBDA t : ~t.synced)
  /\ dec' = [dec EXCEPT ![d] = ReturnedDec]
  /\ UNCHANGED <<appVars, keyVars, initVars, bucketId, todos, op, syncVars, mirrorVars>>
  /\ UNCHANGED <<sideVars, histVars, live, logKeyRef>>

\* the decrypt effect runs while a fetch shows no rows: it returns before the loop
DecryptReturn(d) ==
  /\ ready
  /\ d = "d1" /\ dec[d].pc = "idle"
  /\ live.loaded
  /\ live.isFetching /\ live.rows = <<>>
  /\ dec' = [dec EXCEPT ![d] = ReturnedDec]
  /\ UNCHANGED <<keyVars, callerVars, sideVars, histVars, live, logKeyRef>>

\* an effect that keeps every unsynced item in front of the decrypted ones
DecryptApplyKeepAll(d) ==
  /\ dec[d].pc = "run" /\ dec[d].kind = "effect"
  /\ LET res == DecryptBatch("effect", dec[d].rows, dec[d].key, dec[d].crypto)
     IN items' = SelectSeq(items, LAMBDA t : ~t.synced) \o res.items
  /\ dec' = [dec EXCEPT ![d] = IdleDec]
  /\ UNCHANGED <<appVars, keyVars, initVars, bucketId, todos, op, syncVars, mirrorVars>>
  /\ UNCHANGED <<sideVars, histVars, live, logKeyRef>>

\* an effect that shows the decrypted rows alone: setItems(serverItems)
DecryptApplyServerOnly(d) ==
  /\ dec[d].pc = "run" /\ dec[d].kind = "effect"
  /\ LET res == DecryptBatch("effect", dec[d].rows, dec[d].key, dec[d].crypto)
     IN items' = res.items
  /\ dec' = [dec EXCEPT ![d] = IdleDec]
  /\ UNCHANGED <<appVars, keyVars, initVars, bucketId, todos, op, syncVars, mirrorVars>>
  /\ UNCHANGED <<sideVars, histVars, live, logKeyRef>>

\* the loop is through: optimistic items not among the decrypted ones are kept in
\* front of them, and the counts are logged when they changed
DecryptApply(d) ==
  /\ dec[d].pc = "run" /\ dec[d].kind = "effect"
  /\ LET res == DecryptBatch("effect", dec[d].rows, dec[d].key, dec[d].crypto)
         serverIds == {res.items[i].id : i \in 1..Len(res.items)}
         key == LogKey(res.ok, res.fail, Len(dec[d].rows), dec[d].isFetching)
     IN IF res.threw THEN UNCHANGED <<items, logKeyRef>>
        ELSE /\ items' = SelectSeq(items, LAMBDA t : ~t.synced /\ t.id \notin serverIds)
                            \o res.items
             /\ logKeyRef' = IF ~dec[d].isFetching /\ key # logKeyRef THEN key ELSE logKeyRef
  /\ dec' = [dec EXCEPT ![d] = IdleDec]
  /\ UNCHANGED <<appVars, keyVars, initVars, bucketId, todos, op, syncVars, mirrorVars>>
  /\ UNCHANGED <<sideVars, histVars, live>>

\* refreshFromServer(): db.getAll(SELECT_BY_USER_SQL, [userId]) resolved
RefreshStart(d) ==
  /\ ready
  /\ d = "r1" /\ dec[d].pc = "idle"
  /\ userId # NULL
  /\ dec' = [dec EXCEPT ![d] = [pc |-> "run", kind |-> "refresh",
                                 rows |-> SELECT_BY_USER_SQL(userId),
                                 key |-> dataCrypto, crypto |-> cryptoProvider,
                                 isFetching |-> FALSE]]
  /\ UNCHANGED <<keyVars, callerVars, sideVars, histVars, live, logKeyRef>>

\* refreshFromServer(): the loop is through, setItems(decrypted)
RefreshApply(d) ==
  /\ dec[d].pc = "run" /\ dec[d].kind = "refresh"
  /\ LET res == DecryptBatch("refresh", dec[d].rows, dec[d].key, dec[d].crypto)
     IN items' = IF res.threw THEN items ELSE res.items
  /\ dec' = [dec EXCEPT ![d] = IdleDec]
  /\ UNCHANGED <<appVars, keyVars, initVars, bucketId, todos, op, syncVars, mirrorVars>>
  /\ UNCHANGED <<sideVars, histVars, live, logKeyRef>>

-----------------------------------------------------------------------------
(* App: Back and Forward between the setup screen and the list *)

\* the history entry the page was loaded with: no ready, prov or key parameter
InitialUrl == [ready |-> FALSE, prov |-> NULL, key |-> NoKeyId]

\* App's popstate handler: Back or Forward reached the history entry q. When ready
\* falls the TodoList unmounts and its state is gone. (Taken while no effect run
\* and no handler of the list is in flight.)
OnPop(q) ==
  /\ \A e \in InitSlots : init[e].pc = "idle"
  /\ \A o \in OpSlots : op[o].pc = "idle"
  /\ useWebAuthn' = (q.prov = "webauthn")
  /\ ready' = (q.ready /\ q.prov = "webauthn")
  /\ activeKeyId' = q.key
  /\ IF ready /\ ~ready'
     THEN /\ userId' = NULL /\ dataCrypto' = NoKey
          /\ initInFlight' = FALSE /\ dekReadyRef' = FALSE
          /\ initPending' = FALSE /\ bucketId' = EmptyBucket /\ items' = <<>>
     ELSE /\ UNCHANGED <<userId, dataCrypto, initInFlight, dekReadyRef, items>>
          /\ ScheduleInit
          /\ LockBucket
  /\ \A d \in DecSlots : dec[d].pc = "idle"
  /\ IF ready /\ ~ready'
     THEN live' = IdleLive /\ logKeyRef' = NoLogKey
     ELSE UNCHANGED <<live, logKeyRef>>
  /\ UNCHANGED <<authUser, password, create, keyVars, init, todos, op, dec>>
  /\ UNCHANGED <<syncVars, mirrorVars, sideVars, histVars>>

-----------------------------------------------------------------------------
(* TokenConnector.uploadData: the upload queue is sent upstream *)

IdleUpload == [pc |-> "idle", i |-> 0]

\* history of the calls: the transactions completed (tx.complete()), in order; the
\* upstream tables as they were when the head transaction was first attempted,
\* and whether an attempt at it has failed; how the last call ended
\* (applied: the ops of the running attempt that went through)
NoUplog ==
  [done |-> <<>>, base |-> {}, retried |-> FALSE, applied |-> <<>>, result |-> "none"]

\* the upstream record of (table, id)
Remote(table, id, data) == [table |-> table, id |-> id, data |-> data]
RemoteOf(table, id) == {u \in upstream : u.table = table /\ u.id = id}

\* PUT: const record = { ...op.opData, id: op.id }
PutRecord(e) ==
  [c \in DOMAIN e.opData \cup {"id"} |-> IF c = "id" THEN e.id ELSE e.opData[c]]

\* what the operation hands to the upstream client
SentRecord(e) ==
  [table |-> e.table, op |-> e.op, rec |-> IF e.op = "PUT" THEN PutRecord(e) ELSE e.opData]

\* an upsert that leaves a record that exists as it is
ApplyToKeepExisting(up, e) ==
  LET old == {u \in up : u.table = e.table /\ u.id = e.id}
  IN IF e.op = "PUT"
       THEN IF old = {} THEN up \cup {Remote(e.table, e.id, PutRecord(e))} ELSE up
     ELSE IF e.op = "PATCH"
       THEN (up \ old) \cup {Remote(e.table, e.id, Merge(u.data, e.opData)) : u \in old}
     ELSE up \ old

\* upsert / update().eq("id") / delete().eq("id") applied to the upstream tables up
ApplyTo(up, e) ==
  LET old == {u \in up : u.table = e.table /\ u.id = e.id}
  IN IF e.op = "PUT"
       THEN (up \ old) \cup {Remote(e.table, e.id, PutRecord(e))}
     ELSE IF e.op = "PATCH"
       THEN (up \ old) \cup {Remote(e.table, e.id, Merge(u.data, e.opData)) : u \in old}
     ELSE up \ old

ApplyUpstream(e) == ApplyTo(upstream, e)

\* PowerSync calls uploadData
UploadData ==
  /\ upl.pc = "idle"
  /\ ps_crud # <<>>
  /\ upl' = [upl EXCEPT !.pc = "next"]
  /\ uplog' = [uplog EXCEPT !.result = "running"]
  /\ UNCHANGED <<keyVars, appVars, initVars, bucketId, mirrorVars, todoVars, client, upstream, sent>>
  /\ UNCHANGED auxVars

\* getNextCrudTransaction resolved, in a connector that sends without looking
\* whether a client is configured
UploadNextNoDrain ==
  /\ upl.pc = "next"
  /\ IF ps_crud = <<>>
       THEN /\ upl' = IdleUpload
            /\ uplog' = [uplog EXCEPT !.result = "returned"]
       ELSE /\ upl' = [pc |-> "ops", i |-> 1]
            /\ uplog' = [uplog EXCEPT !.base = IF uplog.retried THEN @ ELSE upstream,
                                      !.applied = <<>>]
  /\ UNCHANGED <<keyVars, appVars, initVars, bucketId, mirrorVars, todoVars>>
  /\ UNCHANGED <<client, upstream, sent, auxVars>>

\* getNextCrudTransaction resolved: break, drain without a client, or start on its ops
UploadNext ==
  /\ upl.pc = "next"
  /\ IF ps_crud = <<>>
       THEN /\ upl' = IdleUpload
            /\ ps_crud' = ps_crud
            /\ uplog' = [uplog EXCEPT !.result = "returned"]
     ELSE IF ~client
       THEN /\ upl' = upl
            /\ ps_crud' = Tail(ps_crud)
            /\ uplog' = [uplog EXCEPT !.done = Append(@, Head(ps_crud))]
     ELSE /\ upl' = [pc |-> "ops", i |-> 1]
          /\ ps_crud' = ps_crud
          /\ uplog' = [uplog EXCEPT !.base = IF uplog.retried THEN @ ELSE upstream,
                                    !.applied = <<>>]
  /\ UNCHANGED <<e2ee_keys, call, inFlight, rand, clock>>
  /\ UNCHANGED <<appVars, initVars, bucketId, mirrorVars, todoVars, client, upstream, sent>>
  /\ UNCHANGED auxVars

\* the next op of the transaction is applied upstream without an error
UploadOp ==
  /\ upl.pc = "ops"
  /\ upl.i <= Len(Head(ps_crud))
  /\ LET e == Head(ps_crud)[upl.i]
     IN /\ upstream' = ApplyUpstream(e)
        /\ sent' = sent \cup {SentRecord(e)}
  /\ upl' = [upl EXCEPT !.i = upl.i + 1]
  /\ uplog' = [uplog EXCEPT !.applied = Append(@, Head(ps_crud)[upl.i])]
  /\ UNCHANGED <<keyVars, appVars, initVars, bucketId, mirrorVars, todoVars, client>>
  /\ UNCHANGED auxVars

\* an error of the upstream that is swallowed: the transaction is completed
UploadOpFailCompletes ==
  /\ upl.pc = "ops"
  /\ upl.i <= Len(Head(ps_crud))
  /\ sent' = sent \cup {SentRecord(Head(ps_crud)[upl.i])}
  /\ ps_crud' = Tail(ps_crud)
  /\ upl' = [pc |-> "next", i |-> 0]
  /\ uplog' = [uplog EXCEPT !.done = Append(@, Head(ps_crud)), !.base = {}, !.retried = FALSE]
  /\ UNCHANGED <<e2ee_keys, call, inFlight, rand, clock>>
  /\ UNCHANGED <<appVars, initVars, bucketId, mirrorVars, todoVars, client, upstream>>
  /\ UNCHANGED auxVars

\* the upstream answers with an error: uploadData rethrows, the transaction stays
UploadOpFail ==
  /\ upl.pc = "ops"
  /\ upl.i <= Len(Head(ps_crud))
  /\ sent' = sent \cup {SentRecord(Head(ps_crud)[upl.i])}
  /\ upl' = IdleUpload
  /\ uplog' = [uplog EXCEPT !.retried = TRUE, !.result = "threw"]
  /\ UNCHANGED <<keyVars, appVars, initVars, bucketId, mirrorVars, todoVars, client, upstream>>
  /\ UNCHANGED auxVars

\* a tx.complete() that leaves the transaction in the queue
UploadCompleteKeeps ==
  /\ upl.pc = "ops"
  /\ upl.i > Len(Head(ps_crud))
  /\ upl' = [pc |-> "next", i |-> 0]
  /\ uplog' = [uplog EXCEPT !.done = Append(@, Head(ps_crud)), !.base = {}, !.retried = FALSE]
  /\ UNCHANGED <<keyVars, appVars, initVars, bucketId, mirrorVars, todoVars>>
  /\ UNCHANGED <<client, upstream, sent, auxVars>>

\* every op went through: tx.complete() removes the transaction from the queue
UploadComplete ==
  /\ upl.pc = "ops"
  /\ upl.i > Len(Head(ps_crud))
  /\ ps_crud' = Tail(ps_crud)
  /\ upl' = [pc |-> "next", i |-> 0]
  /\ uplog' = [uplog EXCEPT !.done = Append(@, Head(ps_crud)), !.base = {}, !.retried = FALSE]
  /\ UNCHANGED <<e2ee_keys, call, inFlight, rand, clock>>
  /\ UNCHANGED <<appVars, initVars, bucketId, mirrorVars, todoVars, client, upstream, sent>>
  /\ UNCHANGED auxVars

-----------------------------------------------------------------------------
(* Mirror synchronizer: one encrypted table and its plaintext mirror *)

Ids == 1..MaxRand
PairUser == "u1"

\* the DEK the session unlocks, and a key this session does not hold
SessionDek == DekKey(1)
ForeignDek == DekKey(2)

\* EncryptedRow: the implicit columns and the envelope columns
EncryptedRow(id, uid, bucket, now, env) ==
  LET c == envelopeToColumns(env)
  IN [id |-> id, user_id |-> uid, bucket_id |-> bucket, updated_at |-> now,
      alg |-> c.alg, aad |-> c.aad, nonce_b64 |-> c.nonce_b64,
      cipher_b64 |-> c.cipher_b64, kdf_salt_b64 |-> c.kdf_salt_b64]

NoEncryptedRow == EncryptedRow(0, NULL, NullBucket, toISOString(0), NoEnv)

\* MirrorRow: pair.parsePlain of the decrypted content, with the implicit columns
Project(row, plain) ==
  [id |-> row.id, user_id |-> row.user_id, bucket_id |-> row.bucket_id,
   updated_at |-> row.updated_at, text |-> plain.text, completed |-> plain.completed,
   stale |-> FALSE]

EncOf(id) == {r \in enc : r.id = id}
MirrorOf(id) == {m \in mirror : m.id = id}

\* decrypt of a row with the session's DEK context; it fails while locked
DecryptRow(row) ==
  IF dek = NoKey THEN [ok |-> FALSE, plain |-> Payload(EMPTY, FALSE)]
  ELSE DataDecrypt(dek, columnsToEnvelope(row), row.aad)

\* a change notification: the id, and the commit and row content it was emitted for
Notification(id, ver, row) == [id |-> id, ver |-> ver, row |-> row]

\* The write helpers and the sync engine stamp updated_at with the clock's
\* millisecond; the commits of this specification fall in one millisecond.

\* everything outside the mirror pair
appSide ==
  <<appVars, initVars, bucketId, todoVars, syncVars, e2ee_keys, call, inFlight, ps_crud>>

\* the session is unlocked: the DEK context is initialised
Unlock ==
  /\ dek = NoKey
  /\ dek' = SessionDek
  /\ UNCHANGED <<enc, mirror, chan, wseq, halted, origin, ooo, last, rand, clock, appSide>>
  /\ UNCHANGED auxVars

\* lock or sign-out: the DEK is dropped from memory
Lock ==
  /\ dek # NoKey
  /\ dek' = NoKey
  /\ UNCHANGED <<enc, mirror, chan, wseq, halted, origin, ooo, last, rand, clock, appSide>>
  /\ UNCHANGED auxVars

\* the mirror after the projection of a row
ProjectInto(row, plain) == (mirror \ MirrorOf(row.id)) \cup {Project(row, plain)}

\* an insert that leaves the projection to the change notification
InsertLeavesMirror(row, plain) == mirror

\* the mirror write of insertEncrypted
InsertMirror(row, plain) == ProjectInto(row, plain)

\* insertEncrypted(pair, userId, bucketId, plainObject): one atomic unit
InsertEncrypted(text) ==
  /\ dek # NoKey
  /\ rand < MaxRand
  /\ rand' = rand + 1
  /\ wseq < MaxCommits
  /\ wseq' = wseq + 1
  /\ \E now \in {clock} :
       LET plain == Payload(text, FALSE)
           row == EncryptedRow(rand + 1, PairUser, NullBucket, toISOString(now),
                               DataEncrypt(dek, plain, TODO_AAD, rand + 1))
       IN /\ clock' = now
          /\ enc' = enc \cup {row}
          /\ mirror' = InsertMirror(row, plain)
          /\ chan' = chan \cup {Notification(row.id, wseq + 1, row)}
          /\ origin' = [origin EXCEPT ![row.id] = "local"]
          /\ last' = "ok"
  /\ UNCHANGED <<dek, halted, ooo, appSide>>
  /\ UNCHANGED auxVars

\* updateEncrypted(id, plainObject): the full content is re-encrypted and re-projected
UpdateEncrypted(id, text) ==
  /\ dek # NoKey
  /\ EncOf(id) # {}
  /\ rand < MaxRand
  /\ rand' = rand + 1
  /\ wseq < MaxCommits
  /\ wseq' = wseq + 1
  /\ \E now \in {clock}, old \in EncOf(id) :
       LET plain == Payload(text, FALSE)
           row == EncryptedRow(id, old.user_id, old.bucket_id, toISOString(now),
                               DataEncrypt(dek, plain, TODO_AAD, rand + 1))
       IN /\ clock' = now
          /\ enc' = (enc \ EncOf(id)) \cup {row}
          /\ mirror' = ProjectInto(row, plain)
          /\ chan' = chan \cup {Notification(id, wseq + 1, row)}
          /\ origin' = [origin EXCEPT ![id] = "local"]
          /\ last' = "ok"
  /\ UNCHANGED <<dek, halted, ooo, appSide>>
  /\ UNCHANGED auxVars

\* the mirror without the row of id
RemoveFrom(id) == mirror \ MirrorOf(id)

\* a delete that removes the encrypted row only
DeleteLeavesMirror(id) == mirror

\* the mirror write of deleteEncrypted
DeleteMirror(id) == RemoveFrom(id)

\* deleteEncrypted(id): both rows are removed in one atomic unit
DeleteEncrypted(id) ==
  /\ EncOf(id) # {}
  /\ wseq < MaxCommits
  /\ wseq' = wseq + 1
  /\ enc' = enc \ EncOf(id)
  /\ mirror' = DeleteMirror(id)
  /\ chan' = chan \cup {Notification(id, wseq + 1, NoEncryptedRow)}
  /\ origin' = [origin EXCEPT ![id] = "deleted"]
  /\ last' = "ok"
  /\ UNCHANGED <<dek, halted, ooo, rand, clock, appSide>>
  /\ UNCHANGED auxVars

\* a storage failure aborts the atomic unit of a write helper: nothing is
\* written and StorageFailure goes to the caller
WriteAborted ==
  /\ last' = "StorageFailure"
  /\ UNCHANGED <<enc, mirror, dek, chan, wseq, halted, origin, ooo, rand, clock, appSide>>
  /\ UNCHANGED auxVars

\* the sync engine applies a remote insert or update of a row
RemoteUpsert(id, text, key) ==
  /\ rand < MaxRand
  /\ id \in {r.id : r \in enc} \cup {rand + 1}
  /\ rand' = rand + 1
  /\ wseq < MaxCommits
  /\ wseq' = wseq + 1
  /\ \E now \in {clock} :
       LET row == EncryptedRow(id, PairUser, NullBucket, toISOString(now),
                               DataEncrypt(key, Payload(text, FALSE), TODO_AAD, rand + 1))
       IN /\ clock' = now
          /\ enc' = (enc \ EncOf(id)) \cup {row}
          /\ chan' = chan \cup {Notification(id, wseq + 1, row)}
  /\ origin' = [origin EXCEPT ![id] = "remote"]
  /\ UNCHANGED <<mirror, dek, halted, ooo, last, appSide>>
  /\ UNCHANGED auxVars

\* the sync engine applies a remote delete of a row
RemoteDelete(id) ==
  /\ EncOf(id) # {}
  /\ wseq < MaxCommits
  /\ wseq' = wseq + 1
  /\ enc' = enc \ EncOf(id)
  /\ chan' = chan \cup {Notification(id, wseq + 1, NoEncryptedRow)}
  /\ origin' = [origin EXCEPT ![id] = "remote"]
  /\ UNCHANGED <<mirror, dek, halted, ooo, last, rand, clock, appSide>>
  /\ UNCHANGED auxVars

\* a handler that projects the content the notification was emitted for
PayloadRows(n) == {n.row} \ {NoEncryptedRow}

\* read-repair: the handler reads the current row of the notification's id
CurrentRows(n) == EncOf(n.id)

\* a failure policy that blanks the projection
BlankOnFailure(id) ==
  {IF m.id = id THEN [m EXCEPT !.text = EMPTY, !.stale = TRUE] ELSE m : m \in mirror}

\* a failure policy that puts a stale, empty row where the mirror had none
CreateOnFailure(id) ==
  IF MirrorOf(id) # {}
  THEN {IF m.id = id THEN [m EXCEPT !.stale = TRUE] ELSE m : m \in mirror}
  ELSE mirror \cup {[Project(r, Payload(EMPTY, FALSE)) EXCEPT !.stale = TRUE] : r \in EncOf(id)}

\* failure policy: the row is marked stale and keeps its last projection
StaleOnFailure(id) ==
  {IF m.id = id THEN [m EXCEPT !.stale = TRUE] ELSE m : m \in mirror}

\* whether a failed decrypt throws to the subscriber loop
ThrowsOnFailure == FALSE

\* n is processed after a notification of a later commit to its id: n is not of
\* the committed state, and no later notification of the id is still pending
OutOfOrder(n) ==
  /\ PayloadRows(n) # EncOf(n.id)
  /\ \A m \in chan : m.id = n.id => m.ver <= n.ver

\* the subscriber's callback for the notification n: that single row is
\* re-projected
ProjectRow(n) ==
  /\ ~halted
  /\ n \in chan
  /\ chan' = chan \ {n}
  /\ ooo' = IF OutOfOrder(n) THEN ooo \cup {n.id} ELSE ooo
  /\ IF CurrentRows(n) = {}
     THEN /\ mirror' = RemoveFrom(n.id)
          /\ halted' = halted
     ELSE \E row \in CurrentRows(n) :
            LET res == DecryptRow(row)
            IN /\ mirror' = IF res.ok THEN ProjectInto(row, res.plain)
                            ELSE StaleOnFailure(n.id)
               /\ halted' = (~res.ok /\ ThrowsOnFailure)
  /\ UNCHANGED <<enc, dek, wseq, origin, last, rand, clock, appSide>>
  /\ UNCHANGED auxVars

\* startEncryptedMirrors: the subscriber takes the notifications in any order of
\* delivery
OnChangeApplied == \E n \in chan : ProjectRow(n)

-----------------------------------------------------------------------------
(* The cipher helpers on their own: DataCrypto.encrypt / decrypt and the     *)
(* conversion between an envelope and its columns                            *)

\* the aad argument: absent, empty, or a context string
Aads == {UNDEF, EMPTY, TODO_AAD, WRAP_AAD}
Plains == {Payload("a", FALSE), Payload("b", TRUE)}
CipherKeys == {DekKey(1), DekKey(2)}
\* header.kdf.saltB64: "" (no salt) or the base64 of a salt
Salts == {EmptyB64, bytesToBase64(1)}

NoColumns == envelopeToColumns(NoEnv)
NoPlain == [ok |-> FALSE, plain |-> Payload(EMPTY, FALSE)]

IdleProbe ==
  [pc |-> "idle", key |-> NoKey, plain |-> Payload(EMPTY, FALSE), aad |-> UNDEF,
   aad2 |-> UNDEF, salt |-> EmptyB64, env |-> NoEnv, out |-> NoPlain,
   cols |-> NoColumns, env2 |-> NoEnv]

\* the calls under test: encrypt(plain, aad) then decrypt(env, aad2) under one
\* key, and the conversions of an envelope with the salt
Probes ==
  {[IdleProbe EXCEPT !.pc = "args", !.key = k, !.plain = p, !.aad = a, !.aad2 = b,
                     !.salt = t] :
     k \in CipherKeys, p \in Plains, a \in Aads, b \in Aads, t \in Salts}

\* everything but the cipher call under test
notProbe == <<appVars, keyVars, initVars, bucketId, otherVars>>

\* env = await dataCrypto.encrypt(plain, aad)
ProbeEncrypt ==
  /\ probe.pc = "args"
  /\ probe' = [probe EXCEPT !.pc = "sealed",
                            !.env = DataEncrypt(probe.key, probe.plain, probe.aad, 1)]
  /\ UNCHANGED <<notProbe, query, schema, ddlRuns, report, caught, listVars>>

\* out = await dataCrypto.decrypt(env, aad2); a throw is out.ok = FALSE
ProbeDecrypt ==
  /\ probe.pc = "sealed"
  /\ probe' = [probe EXCEPT !.pc = "opened",
                            !.out = DataDecrypt(probe.key, probe.env, probe.aad2)]
  /\ UNCHANGED <<notProbe, query, schema, ddlRuns, report, caught, listVars>>

\* a valid envelope: algorithm, optional aad, salt ("" when there is none),
\* nonce and ciphertext
ProbeEnvelope(pr) ==
  CipherEnvelope(IF pr.salt = EmptyB64 THEN ALG ELSE WrapAlg("password"), pr.aad, pr.salt,
                 bytesToBase64(1), bytesToBase64(Seal(pr.key, 1, pr.plain, AdOf(pr.aad))))

\* cols = envelopeToColumns(e): the flat columns written to a row
ProbeToColumns ==
  /\ probe.pc = "args"
  /\ probe' = [probe EXCEPT !.pc = "columns",
                            !.cols = envelopeToColumns(ProbeEnvelope(probe))]
  /\ UNCHANGED <<notProbe, query, schema, ddlRuns, report, caught, listVars>>

\* env2 = columnsToEnvelope(cols)
ProbeToEnvelope ==
  /\ probe.pc = "columns"
  /\ probe' = [probe EXCEPT !.pc = "envelope", !.env2 = columnsToEnvelope(probe.cols)]
  /\ UNCHANGED <<notProbe, query, schema, ddlRuns, report, caught, listVars>>

-----------------------------------------------------------------------------
(* useEncryptedQuery: the query on the plaintext mirror of a pair *)

\* a condition of the WHERE clause: column = ? or column IS NULL
Cond(col, test) == [col |-> col, test |-> test]
EQ == "= ?"
ISNULL == "IS NULL"

\* an EncryptedPairConfig: the todos pair
TodoPair ==
  [name |-> "todos", encryptedTable |-> "todos", mirrorTable |-> "todos_plain",
   mirrorColumns |-> <<"text", "completed">>]

\* a database to query: the mirror table and the encrypted table of the pair,
\* with rows of two users, two buckets and no bucket
SampleMirror ==
  {[id |-> i, user_id |-> u, bucket_id |-> b, updated_at |-> "t", text |-> x,
    completed |-> "0"] :
     <<i, u, b, x>> \in {<<"1", "u1", "b1", "a">>, <<"2", "u1", "b2", "b">>,
                         <<"3", "u1", NULL, "a">>, <<"4", "u2", "b1", "a">>,
                         <<"5", "u2", NULL, "b">>, <<"6", "u1", "b1", "b">>}}
SampleEncrypted ==
  {[id |-> m.id, user_id |-> m.user_id, bucket_id |-> m.bucket_id,
    updated_at |-> m.updated_at, alg |-> ALG, cipher_b64 |-> "c"] : m \in SampleMirror}
SampleDb == [todos_plain |-> SampleMirror, todos |-> SampleEncrypted]

\* the args of a call: userId, bucketId, extraWhere with its parameters
QueryArgs ==
  {[userId |-> u, bucketId |-> b, extraWhere |-> e[1], parameters |-> e[2]] :
     u \in {NULL, UNDEF, "u1", "u2"},
     b \in {UNDEF, NULL, EMPTY, "b1", "b2"},
     e \in {<<UNDEF, <<UNDEF>>>>, <<EMPTY, <<>>>>, <<"AND text = ?", <<"a">>>>,
            <<"AND text = ?", <<"b">>>>}}

\* extraWhere as conditions: none when it is falsy
ExtraConds(e) == IF e \in {UNDEF, NULL, EMPTY} THEN <<>> ELSE <<Cond("text", EQ)>>

\* bucketSql
BucketSql(b) ==
  IF b = UNDEF THEN <<>>
  ELSE IF b = NULL THEN <<Cond("bucket_id", ISNULL)>>
  ELSE <<Cond("bucket_id", EQ)>>

\* parameters bound with the caller's before the user id and the bucket id
QueryParamsCallerFirst(args) ==
  LET base == <<Coalesce(args.userId, EMPTY)>>
                \o (IF args.bucketId # UNDEF /\ args.bucketId # NULL
                    THEN <<args.bucketId>> ELSE <<>>)
  IN IF args.parameters # <<UNDEF>> THEN args.parameters \o base ELSE base

\* params: the user id, the bucket id when it is a string, the caller's
QueryParams(args) ==
  LET base == <<Coalesce(args.userId, EMPTY)>>
                \o (IF args.bucketId # UNDEF /\ args.bucketId # NULL
                    THEN <<args.bucketId>> ELSE <<>>)
  IN IF args.parameters # <<UNDEF>> THEN base \o args.parameters ELSE base

\* the SELECT statement of useEncryptedQuery(pair, args)
QuerySql(pair, args) ==
  [select |-> <<"id", "user_id", "bucket_id", "updated_at">> \o pair.mirrorColumns,
   from |-> pair.mirrorTable,
   where |-> <<Cond("user_id", EQ)>> \o BucketSql(args.bucketId)
               \o ExtraConds(args.extraWhere),
   orderBy |-> "updated_at DESC"]

\* the number of placeholders among the first i conditions
Placeholders(where, i) == Cardinality({j \in 1..i : where[j].test = EQ})

\* the row satisfies every condition, placeholders bound in order; a NULL
\* column equals nothing, an unbound placeholder binds NULL
RowHolds(r, where, params) ==
  \A i \in 1..Len(where) :
    IF where[i].test = ISNULL THEN r[where[i].col] = NULL
    ELSE /\ Placeholders(where, i) <= Len(params)
         /\ r[where[i].col] # NULL
         /\ r[where[i].col] = params[Placeholders(where, i)]

\* db.getAll(sql, params): an error when a selected column is not in the table
\* or the parameters are not as many as the placeholders
RunQuery(db, sql, params) ==
  LET cols == {sql.select[i] : i \in 1..Len(sql.select)}
      hit == {r \in db[sql.from] : RowHolds(r, sql.where, params)}
  IN IF \/ \E r \in db[sql.from] : ~(cols \subseteq DOMAIN r)
        \/ Placeholders(sql.where, Len(sql.where)) # Len(params)
     THEN [ok |-> FALSE, rows |-> {}]
     ELSE [ok |-> TRUE, rows |-> {[c \in cols |-> r[c]] : r \in hit}]

NoArgs == [userId |-> UNDEF, bucketId |-> UNDEF, extraWhere |-> UNDEF, parameters |-> <<UNDEF>>]
NoSql == [select |-> <<>>, from |-> NULL, where |-> <<>>, orderBy |-> NULL]
IdleQuery ==
  [pc |-> "idle", args |-> NoArgs, sql |-> NoSql, params |-> <<>>,
   res |-> [ok |-> FALSE, rows |-> {}]]

\* useEncryptedQuery(pair, args) renders: the statement and its parameters go
\* to useQuery
UseEncryptedQuery ==
  /\ query.pc = "args"
  /\ query' = [query EXCEPT !.pc = "watch", !.sql = QuerySql(TodoPair, query.args),
                            !.params = QueryParams(query.args)]
  /\ UNCHANGED <<notProbe, probe, schema, ddlRuns, report, caught, listVars>>

\* useQuery runs the statement on the local database
QueryResolve ==
  /\ query.pc = "watch"
  /\ query' = [query EXCEPT !.pc = "done",
                            !.res = RunQuery(SampleDb, query.sql, query.params)]
  /\ UNCHANGED <<notProbe, probe, schema, ddlRuns, report, caught, listVars>>

-----------------------------------------------------------------------------
(* CREATE_TABLE_SQL: the schema statements, run on the local database *)

Column(name, type, notNull, pk) == [name |-> name, type |-> type, notNull |-> notNull, pk |-> pk]

\* the columns of CREATE TABLE IF NOT EXISTS todos (...)
TodosColumns ==
  <<Column("id", "TEXT", FALSE, TRUE), Column("user_id", "TEXT", TRUE, FALSE),
    Column("bucket_id", "TEXT", FALSE, FALSE), Column("alg", "TEXT", TRUE, FALSE),
    Column("aad", "TEXT", FALSE, FALSE), Column("nonce_b64", "TEXT", TRUE, FALSE),
    Column("cipher_b64", "TEXT", TRUE, FALSE), Column("kdf_salt_b64", "TEXT", TRUE, FALSE),
    Column("created_at", "TEXT", TRUE, FALSE), Column("updated_at", "TEXT", TRUE, FALSE)>>

NoSchema == [tables |-> {}, indexes |-> {}]
HasTable(sch, name) == \E t \in sch.tables : t.name = name
HasIndex(sch, name) == \E x \in sch.indexes : x.name = name

\* the database: its schema and the rows of table todos
Database(sch, rows) == [schema |-> sch, rows |-> rows]

\* a CREATE TABLE that replaces a table that exists, dropping its rows
CreateTableReplace(db, name, cols) ==
  Database([db.schema EXCEPT !.tables = {t \in @ : t.name # name}
                                         \cup {[name |-> name, cols |-> cols]}], {})

\* CREATE TABLE IF NOT EXISTS name (cols)
CreateTableIfNotExists(db, name, cols) ==
  IF HasTable(db.schema, name) THEN db
  ELSE Database([db.schema EXCEPT !.tables = @ \cup {[name |-> name, cols |-> cols]}], {})

\* CREATE INDEX IF NOT EXISTS name ON table(col)
CreateIndexIfNotExists(db, name, table, col) ==
  IF HasIndex(db.schema, name) \/ ~HasTable(db.schema, table) THEN db
  ELSE Database([db.schema EXCEPT !.indexes = @ \cup {[name |-> name, table |-> table,
                                                        col |-> col]}], db.rows)

\* both statements of CREATE_TABLE_SQL, in order
CREATE_TABLE_SQL(db) ==
  CreateIndexIfNotExists(CreateTableIfNotExists(db, "todos", TodosColumns),
                         "idx_todos_user_id", "todos", "user_id")

\* everything but the database of the schema statements
notDatabase ==
  <<appVars, keyVars, initVars, bucketId, items, op, syncVars, mirrorVars, probe, query,
    report, caught, listVars>>

\* the schema statements are executed (on startup)
ExecuteDDL ==
  /\ ddlRuns < MaxRuns
  /\ ddlRuns' = ddlRuns + 1
  /\ LET db == CREATE_TABLE_SQL(Database(schema, todos))
     IN schema' = db.schema /\ todos' = db.rows
  /\ UNCHANGED notDatabase

\* INSERT_SQL on the table: a row of a new id is stored
ExecuteInsert(id, uid, bucket) ==
  /\ HasTable(schema, "todos")
  /\ \A r \in todos : r.id # id
  /\ todos' = todos \cup {InsertRow([IdleOp EXCEPT !.id = id, !.uid = uid, !.bucket = bucket])}
  /\ UNCHANGED <<schema, ddlRuns, notDatabase>>

\* DELETE_SQL on the table
ExecuteDelete(id, uid) ==
  /\ HasTable(schema, "todos")
  /\ RowsWhere(id, uid) # {}
  /\ todos' = todos \ RowsWhere(id, uid)
  /\ UNCHANGED <<schema, ddlRuns, notDatabase>>

-----------------------------------------------------------------------------
(* Specification of the key registry with its callers *)

\* nobody is signed in, no list is open, nothing is stored
InitSignedOut ==
  /\ authUser = NULL
  /\ ready = FALSE
  /\ useWebAuthn = FALSE
  /\ password = EMPTY
  /\ activeKeyId = NoKeyId
  /\ e2ee_keys = <<>>
  /\ rand = 0
  /\ userId = NULL
  /\ dataCrypto = NoKey
  /\ dekReadyRef = FALSE
  /\ bucketId = EmptyBucket
  /\ todos = {}

\* nothing is running, nothing is displayed
InitIdle ==
  /\ create = [c \in CreateSlots |-> IdleCreate]
  /\ call = [c \in Callers |-> IdleCall]
  /\ inFlight = {}
  /\ clock = 0
  /\ initPending = FALSE
  /\ init = [e \in InitSlots |-> IdleInit]
  /\ initInFlight = FALSE
  /\ items = <<>>
  /\ op = [o \in OpSlots |-> IdleOp]
  /\ upl = IdleUpload
  /\ uplog = NoUplog
  /\ sent = {}
  /\ enc = {}
  /\ mirror = {}
  /\ dek = NoKey
  /\ chan = {}
  /\ wseq = 0
  /\ halted = FALSE
  /\ origin = [i \in Ids |-> "none"]
  /\ ooo = {}
  /\ last = "ok"

InitLocal == InitSignedOut /\ InitIdle

\* nothing is queued for upload, nothing is stored upstream
InitState == InitLocal /\ ps_crud = <<>> /\ upstream = {}

\* the schema statements have not been executed
NoDDL == schema = NoSchema /\ ddlRuns = 0

\* no handler has failed
NoHistory == report = NoReport /\ caught = NULL

\* the list is not mounted: no query result, no run of the decrypt effect
NoList == live = IdleLive /\ dec = [d \in DecSlots |-> IdleDec] /\ logKeyRef = NoLogKey

NoAux == NoDDL /\ NoHistory /\ NoList

\* the application starts with an upstream client configured
Init == InitState /\ client = TRUE /\ probe = IdleProbe /\ query = IdleQuery /\ NoAux

\* the upstream client is configured or not (the environment decides)
InitApp == InitState /\ client \in BOOLEAN /\ probe = IdleProbe /\ query = IdleQuery /\ NoAux

NextKeyring ==
  \/ \E u \in Users : SignIn(u)
  \/ SignOut
  \/ \E c \in CreateSlots, m \in Kinds, s \in Secrets, g \in Slugs : OnCreate(c, m, s, g)
  \/ \E c \in CreateSlots : CreateFinish(c)
  \/ \E i \in 1..MaxRand, s \in Secrets : OnOpen(i, s)
  \/ \E e \in InitSlots : InitStart(e)
  \/ \E e \in InitSlots : InitGetUser(e)
  \/ \E e \in InitSlots : InitCounts(e)
  \/ \E e \in InitSlots : InitCountsFail(e)
  \/ \E e \in InitSlots : InitSettle(e)
  \/ \E c \in Callers : EnsureStep(c)

SpecKeyring == Init /\ [][NextKeyring]_vars

-----------------------------------------------------------------------------
(* Specification of the TodoList application: one user creates a list, the   *)
(* TodoList mounts and resolves the DEK, todos are added, toggled and       *)
(* removed, and the upload queue is sent upstream                            *)

Next ==
  \/ SignIn("u1")
  \/ \E g \in Slugs : OnCreate("a1", "password", "s1", g)
  \/ CreateFinish("a1")
  \/ InitStart("t1")
  \/ InitGetUser("t1")
  \/ InitCounts("t1")
  \/ InitCountsFail("t1")
  \/ InitSettle("t1")
  \/ \E c \in {"a1", "t1"} : EnsureStep(c)
  \/ \E o \in OpSlots, t \in Texts : AddTodo(o, t)
  \/ \E o \in OpSlots : AddOptimistic(o)
  \/ \E o \in OpSlots : AddInsert(o)
  \/ \E o \in OpSlots, id \in 1..MaxRand : ToggleCompleted(o, id)
  \/ \E o \in OpSlots : ToggleOptimistic(o)
  \/ \E o \in OpSlots : ToggleUpdate(o)
  \/ \E o \in OpSlots, id \in 1..MaxRand : RemoveTodo(o, id)
  \/ \E o \in OpSlots : RemoveDelete(o)
  \/ \E o \in OpSlots : MarkSynced(o)
  \/ \E o \in OpSlots : WriteFail(o)
  \/ UploadData
  \/ UploadNext
  \/ UploadOp
  \/ UploadOpFail
  \/ UploadComplete

Spec == InitApp /\ [][Next]_vars

-----------------------------------------------------------------------------
(* Specification of the mirror synchronizer: local writes through the write  *)
(* helpers, remote changes applied by the sync engine, lock and unlock, and  *)
(* the subscriber processing change notifications in any order               *)

NextMirror ==
  \/ Unlock
  \/ Lock
  \/ InsertEncrypted("a")
  \/ \E id \in Ids : UpdateEncrypted(id, "b")
  \/ \E id \in Ids : DeleteEncrypted(id)
  \/ WriteAborted
  \/ \E id \in Ids, k \in {SessionDek, ForeignDek} : RemoteUpsert(id, "b", k)
  \/ \E id \in Ids : RemoteDelete(id)
  \/ OnChangeApplied

SpecMirror == Init /\ [][NextMirror]_vars

-----------------------------------------------------------------------------
(* Specification of the cipher helpers: the calls are made with every        *)
(* combination of the arguments                                              *)

InitCipher == InitState /\ client = TRUE /\ probe \in Probes /\ query = IdleQuery /\ NoAux

NextCipher ==
  \/ ProbeEncrypt
  \/ ProbeDecrypt
  \/ ProbeToColumns
  \/ ProbeToEnvelope

SpecCipher == InitCipher /\ [][NextCipher]_vars

-----------------------------------------------------------------------------
(* Specification of useEncryptedQuery: the hook is called with every         *)
(* combination of the args                                                   *)

InitQuery ==
  /\ InitState /\ client = TRUE /\ probe = IdleProbe /\ NoAux
  /\ query \in {[IdleQuery EXCEPT !.pc = "args", !.args = a] : a \in QueryArgs}

NextQuery ==
  \/ UseEncryptedQuery
  \/ QueryResolve

SpecQuery == InitQuery /\ [][NextQuery]_vars

-----------------------------------------------------------------------------
(* Specification of the list: one user creates a password list, the TodoList *)
(* mounts and resolves the DEK, sync brings in rows of other devices (under  *)
(* the list's DEK or under a foreign key), the live query delivers them, and *)
(* the decrypt effect and refreshFromServer turn them into displayed items   *)

NextList ==
  \/ SignIn("u1")
  \/ OnCreate("a1", "password", "s1", "a")
  \/ CreateFinish("a1")
  \/ InitStart("t1")
  \/ InitGetUser("t1")
  \/ InitCounts("t1")
  \/ InitSettle("t1")
  \/ \E c \in {"a1", "t1"} : EnsureStep(c)
  \/ \E id \in RemoteIds, k \in {SessionDek, ForeignDek} : Download(id, k)
  \/ QueryFetch
  \/ QueryEmit
  \/ \E d \in DecSlots : DecryptStart(d)
  \/ \E d \in DecSlots : DecryptReturn(d)
  \/ \E d \in DecSlots : DecryptApply(d)
  \/ \E d \in DecSlots : RefreshStart(d)
  \/ \E d \in DecSlots : RefreshApply(d)

SpecList == Init /\ [][NextList]_vars

-----------------------------------------------------------------------------
(* Specification of unlocking: one user creates and opens lists by password  *)
(* or passkey, the secret given may be wrong and the ceremony may fail, and  *)
(* Back returns to the setup screen for another attempt                      *)

NextUnlock ==
  \/ SignIn("u1")
  \/ \E m \in Kinds : OnCreate("a1", m, "s1", "a")
  \/ CreateFinish("a1")
  \/ \E i \in 1..MaxRand, s \in Secrets : OnOpen(i, s)
  \/ InitStart("t1")
  \/ InitGetUser("t1")
  \/ InitCounts("t1")
  \/ InitCountsFail("t1")
  \/ InitSettle("t1")
  \/ \E c \in {"a1", "t1"} : EnsureStep(c)
  \/ \E c \in {"a1", "t1"}, err \in CeremonyErrors : EnsureCeremonyFail(c, err)
  \/ OnPop(InitialUrl)

SpecUnlock == Init /\ [][NextUnlock]_vars

-----------------------------------------------------------------------------
(* Specification of the schema statements: they are executed any number of   *)
(* times on a database that starts empty, between inserts and deletes of rows *)

NextSchema ==
  \/ ExecuteDDL
  \/ \E id \in Ids, u \in Users, b \in {EmptyBucket, KeyId("u1", "password", "a")} :
       ExecuteInsert(id, u, b)
  \/ \E id \in Ids, u \in Users : ExecuteDelete(id, u)

SpecSchema == Init /\ [][NextSchema]_vars

-----------------------------------------------------------------------------
(* Specification of uploadData alone: the queue holds transactions of one or *)
(* more operations when PowerSync calls the connector, and nothing is        *)
(* written locally meanwhile                                                 *)

\* the queue holds at most MaxQueued operations
MaxQueued == 3

SampleRow(c, t) == [user_id |-> "u1", cipher_b64 |-> c, updated_at |-> t]

SampleOps ==
  { CrudEntry("PUT", "todos", 1, SampleRow("c1", 1)),
    CrudEntry("PATCH", "todos", 1, [cipher_b64 |-> "c2", updated_at |-> 2]),
    CrudEntry("DELETE", "todos", 1, [id |-> 1]),
    CrudEntry("PUT", "todos", 2, SampleRow("c1", 1)) }

\* the queues of transactions that hold n operations together
RECURSIVE QueuesOf(_)
QueuesOf(n) ==
  IF n = 0 THEN {<<>>}
  ELSE UNION {{<<tx>> \o q : tx \in [1..k -> SampleOps], q \in QueuesOf(n - k)} : k \in 1..n}

Queues == UNION {QueuesOf(n) : n \in 1..MaxQueued}

\* the upstream table is empty or holds a record of id 1
UpstreamStates ==
  {{}, {Remote("todos", 1, PutRecord(CrudEntry("PUT", "todos", 1, SampleRow("c0", 0))))}}

InitUpload ==
  /\ InitLocal
  /\ ps_crud \in Queues
  /\ upstream \in UpstreamStates
  /\ client \in BOOLEAN
  /\ probe = IdleProbe /\ query = IdleQuery /\ NoAux

NextUpload ==
  \/ UploadData
  \/ UploadNext
  \/ UploadOp
  \/ UploadOpFail
  \/ UploadComplete

SpecUpload == InitUpload /\ [][NextUpload]_vars

\* no upstream operation fails, and every step of a running call is taken in
\* the end: the promises the call awaits are resolved
NextUploadOk ==
  \/ UploadData
  \/ UploadNext
  \/ UploadOp
  \/ UploadComplete

SpecUploadLive ==
  InitUpload /\ [][NextUploadOk]_vars /\ WF_vars(UploadNext \/ UploadOp \/ UploadComplete)

-----------------------------------------------------------------------------
(* Specification of the displayed list: u1 has created the password list "a", *)
(* stored a todo in it and opened it again; todos are added, toggled and      *)
(* removed, under the list's bucket or an empty bucket field, while the live  *)
(* query, the decrypt effect and refreshFromServer run                        *)

ListKeyId == KeyId("u1", "password", "a")

ListKeyRow ==
  WrappedKeyRecord(ListKeyId, "u1", "password",
                   ProviderEncrypt(CryptoProvider("password", "s1"), SessionDek, WRAP_AAD, 1), 0)

\* the todo stored before: addTodo's row, with the second random draw
StoredTodo ==
  InsertRow([IdleOp EXCEPT !.id = 2, !.uid = "u1", !.bucket = ListKeyId,
                           !.env = DataEncrypt(SessionDek, Payload("a", FALSE), TODO_AAD, 2)])

\* the state after SignIn, onCreate("password", "s1", "a") and the DEK init effect
InitSession ==
  /\ authUser = "u1"
  /\ ready = TRUE
  /\ useWebAuthn = FALSE
  /\ password = "s1"
  /\ activeKeyId = ListKeyId
  /\ e2ee_keys = <<ListKeyRow>>
  /\ userId = "u1"
  /\ dataCrypto = SessionDek
  /\ dekReadyRef = TRUE

\* and after one addTodo, with the list mounted anew; the bucket field holds the
\* list's key id, or the user has emptied it
InitOpened ==
  /\ InitSession
  /\ rand = 2
  /\ bucketId \in {ListKeyId, EmptyBucket}
  /\ todos = {StoredTodo}
  /\ ps_crud = << <<CrudEntry("PUT", "e2ee_keys", ListKeyId, KeyOpData(ListKeyRow))>>,
                  <<CrudEntry("PUT", "todos", StoredTodo.id, PutOpData(StoredTodo))>> >>

InitItems ==
  /\ InitOpened /\ InitIdle
  /\ upstream = {} /\ client = TRUE
  /\ probe = IdleProbe /\ query = IdleQuery /\ NoAux

NextItems ==
  \/ \E o \in OpSlots, t \in Texts : AddTodo(o, t)
  \/ \E o \in OpSlots : AddOptimistic(o)
  \/ \E o \in OpSlots : AddInsert(o)
  \/ \E o \in OpSlots, id \in 1..MaxRand : ToggleCompleted(o, id)
  \/ \E o \in OpSlots : ToggleOptimistic(o)
  \/ \E o \in OpSlots : ToggleUpdate(o)
  \/ \E o \in OpSlots, id \in 1..MaxRand : RemoveTodo(o, id)
  \/ \E o \in OpSlots : RemoveDelete(o)
  \/ \E o \in OpSlots : MarkSynced(o)
  \/ QueryFetch
  \/ QueryEmit
  \/ \E d \in DecSlots : DecryptStart(d)
  \/ \E d \in DecSlots : DecryptApply(d)
  \/ \E d \in DecSlots : RefreshStart(d)
  \/ \E d \in DecSlots : RefreshApply(d)

SpecItems == InitItems /\ [][NextItems]_vars

-----------------------------------------------------------------------------
(* Specification of the live query's statement: the table holds any of the   *)
(* rows that sync has brought in, of two users, with no bucket or one of two *)
(* buckets, and the query runs with the bucket field empty or set            *)

OtherBucket == KeyId("u1", "webauthn", "a")

\* a row written by another device: INSERT_SQL's row, without a queued upload
SyncedRow(id, uid, bucket) ==
  InsertRow([IdleOp EXCEPT !.id = id, !.uid = uid, !.bucket = bucket,
                           !.env = DataEncrypt(SessionDek, Payload(RemoteText, FALSE),
                                               TODO_AAD, id)])

SyncedRows ==
  { SyncedRow(11, "u1", EmptyBucket), SyncedRow(12, "u1", ListKeyId),
    SyncedRow(13, "u1", OtherBucket), SyncedRow(14, "u2", EmptyBucket),
    SyncedRow(15, "u2", ListKeyId), SyncedRow(16, "u2", OtherBucket) }

InitSelect ==
  /\ InitSession /\ InitIdle
  /\ rand = 1
  /\ todos \in SUBSET SyncedRows
  /\ bucketId \in {EmptyBucket, ListKeyId, OtherBucket}
  /\ ps_crud = << <<CrudEntry("PUT", "e2ee_keys", ListKeyId, KeyOpData(ListKeyRow))>> >>
  /\ upstream = {} /\ client = TRUE
  /\ probe = IdleProbe /\ query = IdleQuery /\ NoAux

NextSelect ==
  \/ QueryFetch
  \/ QueryEmit

SpecSelect == InitSelect /\ [][NextSelect]_vars

-----------------------------------------------------------------------------
(* Claims on the key registry and the DEK lifecycle manager *)

Running == {"start", "lookup", "unwrap", "wrap", "insert"}
SameKey(c, d) ==
  /\ call[c].uid = call[d].uid
  /\ call[c].kind = call[d].kind
  /\ call[c].keyId = call[d].keyId
\* the secret and the DEK inside a row's envelope
WrapSecretOf(row) == base64ToBytes(row.cipher_b64).k.s
WrappedDekOf(row) == base64ToBytes(row.cipher_b64).p
KeyOf(row) == <<row.user_id, row.provider, row.id>>

\* C1: two ensureDEKWrapped calls made with the same arguments for a key that had
\* no record, interleaved at any suspension point, leave exactly one
\* WrappedKeyRecord for the key and both return the same DEK, the one it wraps.
C1_ConcurrentEnsureIdempotent ==
  /\ \A c \in Callers :
       call[c].pc = "ok" =>
         LET rs == KeyRowsFor(call[c].uid, call[c].kind, call[c].keyId)
         IN Len(rs) = 1 /\ call[c].dek = WrappedDekOf(rs[1]) /\ call[c].dek.t = "dek"
  /\ \A c, d \in Callers :
       (call[c].pc = "ok" /\ call[d].pc = "ok" /\ SameKey(c, d)) =>
         call[c].dek = call[d].dek
  /\ \A c, d \in Callers :
       (c # d /\ call[c].pc = "ok" /\ call[d].pc \in {"ok", "err"} /\ SameKey(c, d)
          /\ call[c].prov = call[d].prov) => call[d].pc = "ok"

\* two calls for the same key overlapped and both have returned
C1_Witness ==
  \E c, d \in Callers :
    /\ c # d /\ SameKey(c, d) /\ call[c].prov = call[d].prov
    /\ call[c].pc = "ok" /\ call[d].pc = "ok"
    /\ call[d].busy /\ ~call[c].busy
    /\ call[c].dek = call[d].dek

\* C2: in every reachable state the key registry holds at most one
\* WrappedKeyRecord per (userId, providerKind, keyId).
C2_RegistryUnique ==
  \A i, j \in 1..Len(e2ee_keys) :
    KeyOf(e2ee_keys[i]) = KeyOf(e2ee_keys[j]) => i = j

\* several records exist, a call overlapped another one for its key, and a call
\* with a wrong secret has failed
C2_Witness ==
  /\ Len(e2ee_keys) >= 2
  /\ \E c \in Callers : call[c].pc = "ok" /\ call[c].busy
  /\ \E c \in Callers : call[c].pc = "err"

\* C3: ensureDEKWrapped for a key whose record exists, with a provider built from
\* another secret than the one that wrapped it, fails with DecryptionFailed and
\* returns no DEK (TodoList then holds no DEK), and the step that fails leaves
\* the registry and the upload queue as they were: the record is still there,
\* once.
C3_FailedState ==
  \A c \in Callers :
    /\ call[c].pc = "err" =>
         /\ call[c].err = "DecryptionFailed"
         /\ call[c].dek = NoKey
         /\ WrapSecretOf(call[c].row) # call[c].prov.secret
         /\ KeyRowsFor(call[c].uid, call[c].kind, call[c].keyId) = <<call[c].row>>
    /\ call[c].pc = "ok" => WrapSecretOf(call[c].row) = call[c].prov.secret
C3_FailedStep ==
  \A c \in Callers :
    /\ (call[c].pc = "unwrap" /\ call'[c].pc = "err") =>
         e2ee_keys' = e2ee_keys /\ ps_crud' = ps_crud
    /\ (c \in InitSlots /\ call[c].pc = "err" /\ call'[c].pc = "idle") =>
         dataCrypto' = NoKey
C3_WrongSecretFails == [](C3_FailedState) /\ [][C3_FailedStep]_vars

\* a call with the wrong secret has failed on an existing record
C3_Witness ==
  \E c \in Callers :
    /\ call[c].pc = "err"
    /\ call[c].row \in {e2ee_keys[i] : i \in 1..Len(e2ee_keys)}
    /\ WrapSecretOf(call[c].row) # call[c].prov.secret

\* C13: after sign-out the DEK is no longer held in memory, so that every later
\* encrypt or decrypt fails until a new unlock: once the auth provider has no
\* user and the DEK init effects have settled, TodoList holds no DEK.
C13_SignOutDropsDek ==
  (authUser = NULL /\ \A e \in InitSlots : init[e].pc = "idle") => dataCrypto = NoKey

-----------------------------------------------------------------------------
(* Claims on what is persisted and sent upstream *)

Deks == {DekKey(n) : n \in 1..MaxRand}
QueuedOps == {ps_crud[i][j] : i \in 1..Len(ps_crud), j \in 1..1}
KeyRows == {e2ee_keys[i] : i \in 1..Len(e2ee_keys)}

\* the record's ciphertext column holds a DEK that is not encrypted
HoldsClearDek(rec) ==
  /\ "cipher_b64" \in DOMAIN rec
  /\ base64ToBytes(rec.cipher_b64).k = NoKey
  /\ base64ToBytes(rec.cipher_b64).p \in Deks

\* the row's envelope is the provider's encryption of a DEK
WrapsDek(row) ==
  \E s \in Secrets \cup {PasskeySecret}, d \in Deks, r \in 1..MaxRand :
    columnsToEnvelope(row) = ProviderEncrypt(CryptoProvider(row.provider, s), d, WRAP_AAD, r)

\* C4: in every reachable state no row of the key registry, no row of the
\* encrypted table todos and no entry of the upload queue holds the DEK
\* unwrapped; each registry row holds the provider's envelope of a DEK, and the
\* DEK TodoList holds in memory is one the registry wraps.
C4_DekNeverPersistedUnwrapped ==
  /\ \A row \in KeyRows : ~HoldsClearDek(row) /\ WrapsDek(row)
  /\ \A row \in todos : ~HoldsClearDek(row)
  /\ \A e \in QueuedOps : ~HoldsClearDek(e.opData)
  /\ dataCrypto # NoKey => \E row \in KeyRows : WrappedDekOf(row) = dataCrypto

\* the DEK is in memory, and the registry, the table todos and the upload queue
\* (a key record and a todo) are all populated
C4_Witness ==
  /\ dataCrypto \in Deks
  /\ KeyRows # {} /\ todos # {}
  /\ \E e \in QueuedOps : e.table = "e2ee_keys"
  /\ \E e \in QueuedOps : e.table = "todos" /\ e.op = "PATCH"

TodoColumns ==
  {"id", "user_id", "bucket_id", "alg", "aad", "nonce_b64", "cipher_b64", "kdf_salt_b64",
   "created_at", "updated_at"}

\* the record has no column beyond the schema's, and its ciphertext is sealed
\* under a DEK
Opaque(rec) ==
  /\ DOMAIN rec \subseteq TodoColumns
  /\ "cipher_b64" \in DOMAIN rec => base64ToBytes(rec.cipher_b64).k \in Deks
  /\ "aad" \in DOMAIN rec => rec.aad \notin Texts
  /\ "alg" \in DOMAIN rec => rec.alg \notin Texts

\* C5: whatever todos are added, toggled and removed, every row of the table
\* todos and every record uploadData sends upstream for it has only the columns
\* id, user_id, bucket_id, created_at, updated_at and the envelope columns, and
\* its ciphertext is sealed: the text and the completed flag are in no column.
C5_TodosOpaque ==
  /\ \A row \in todos : Opaque(row)
  /\ \A m \in sent : m.table = "todos" => Opaque(m.rec)

\* a todo was added, toggled and removed, and all three writes were sent upstream
C5_Witness ==
  \E a, b, c \in sent :
    /\ a.table = "todos" /\ a.op = "PUT"
    /\ b.table = "todos" /\ b.op = "PATCH" /\ b.rec.cipher_b64 # a.rec.cipher_b64
    /\ c.table = "todos" /\ c.op = "DELETE" /\ c.rec.id = a.rec.id

\* C7: after the insert of a todo and an update of the same id, the displayed
\* item and the row's payload read the updated value, never the inserted one,
\* and the row's updated_at is strictly later than the one the insert wrote.
C7_UpdateStrictlyLater ==
  \A o \in OpSlots :
    (op[o].pc = "written" /\ op[o].kind = "toggle") =>
      \A r \in RowsWhere(op[o].id, op[o].uid) :
        /\ DataDecrypt(op[o].key, columnsToEnvelope(r), r.aad).plain
             = Payload(op[o].text, op[o].completed)
        /\ HasItem(r.id) => ItemOf(r.id).completed = op[o].completed
        /\ r.updated_at.iso > r.created_at.iso

-----------------------------------------------------------------------------
(* Claims on the mirror synchronizer *)

\* what a reader of the mirror sees of a row
Visible(m) == [id |-> m.id, user_id |-> m.user_id, bucket_id |-> m.bucket_id,
               text |-> m.text, completed |-> m.completed]

\* the mirror row of id is the projection of the committed encrypted row of id
Projected(id) ==
  \A r \in EncOf(id) :
    \E m \in MirrorOf(id) :
      Visible(m) = Visible(Project(r, DataDecrypt(SessionDek, columnsToEnvelope(r), r.aad).plain))

C6_State ==
  \A id \in Ids :
    origin[id] = "local" => EncOf(id) # {} /\ MirrorOf(id) # {} /\ Projected(id)
C6_Step ==
  /\ last' = "StorageFailure" /\ last = "ok" => enc' = enc /\ mirror' = mirror
  /\ \A id \in Ids :
       (EncOf(id) = {} /\ MirrorOf(id) = {} /\ origin'[id] = "local") =>
         (enc' \ enc # {} /\ mirror' \ mirror # {})

C8_DeleteRemovesBoth ==
  \A id \in Ids : origin[id] = "deleted" => EncOf(id) = {} /\ MirrorOf(id) = {}

\* an id was deleted and, after the delete's own notification, a notification
\* emitted for an earlier version of the row was processed
C8_Witness ==
  \E id \in Ids :
    /\ origin[id] = "deleted" /\ id \in ooo
    /\ \A n \in chan : n.id # id
    /\ wseq = 2

\* C9: once every pending change notification has been processed, in whatever
\* order, no mirror row is left without an encrypted row, and the projection in
\* each mirror row that is not marked stale is the decryption of the encrypted
\* row committed now, never of an earlier version.
C9_ReadRepair ==
  chan = {} =>
    \A m \in mirror :
      /\ EncOf(m.id) # {}
      /\ ~m.stale => \A r \in EncOf(m.id) :
                       /\ DecryptRow(r).ok \/ dek = NoKey
                       /\ m = Project(r, DataDecrypt(SessionDek, columnsToEnvelope(r),
                                                     r.aad).plain)

\* local and remote writes of an id interleaved, a notification of it was
\* processed out of order, nothing is pending, and the mirror row shows the
\* committed row
C9_Witness ==
  /\ chan = {}
  /\ \E id \in ooo :
       /\ origin[id] = "remote"
       /\ \E m \in MirrorOf(id) : ~m.stale /\ m.text = "b"
       /\ Projected(id)

\* C10: with the DEK unavailable, processing a change notification for an id
\* that has an encrypted row and a mirror row leaves the mirror row in place
\* with its visible fields as they were, and does not end the subscriber loop.
C10_Step ==
  \A n \in chan :
    (chan' = chan \ {n} /\ dek = NoKey /\ EncOf(n.id) # {}) =>
      /\ \A m \in MirrorOf(n.id) : \E k \in mirror' : k.id = n.id /\ Visible(k) = Visible(m)
      /\ \A k \in mirror' : k.id = n.id => \E m \in MirrorOf(n.id) : Visible(k) = Visible(m)
      /\ ~halted'
C10_StaleOnLock == [][C10_Step]_vars

\* locked, a notification of a remote change was processed for a mirrored row:
\* the row is stale and still shows the earlier version
C10_Witness ==
  /\ dek = NoKey
  /\ \E m \in mirror :
       /\ m.stale /\ m.text = "a"
       /\ \E r \in EncOf(m.id) : r.updated_at # m.updated_at \/ ~Projected(m.id)

\* the state of the mirror row of id
MirrorState(id) ==
  IF MirrorOf(id) = {} THEN "absent"
  ELSE IF \E m \in MirrorOf(id) : m.stale THEN "stale" ELSE "fresh"

\* the committed encrypted row of id decrypts under the session's DEK context
Decrypts(id) == \A r \in EncOf(id) : DecryptRow(r).ok

C12_State == \A id \in Ids : Cardinality(MirrorOf(id)) <= 1
C12_Step ==
  \A id \in Ids :
    LET a == MirrorState(id)
        b == MirrorState(id)'
        processed == \E n \in chan : n.id = id /\ chan' = chan \ {n}
    IN /\ a # b =>
            \/ /\ a = "absent" /\ b = "fresh"
               /\ EncOf(id)' # {} /\ Projected(id)'
            \/ /\ a = "fresh" /\ b = "stale"
               /\ processed /\ EncOf(id) # {} /\ ~Decrypts(id)
            \/ /\ a = "stale" /\ b = "fresh"
               /\ EncOf(id)' # {} /\ Projected(id)' /\ dek # NoKey
            \/ /\ a \in {"fresh", "stale"} /\ b = "absent"
               /\ EncOf(id)' = {}
       /\ (processed /\ EncOf(id) # {} /\ ~Decrypts(id)) =>
            /\ (a = "absent") = (b = "absent")
            /\ b # "fresh"

\* C12: each id has at most one mirror row, which is absent, present and not
\* stale, or present and stale, and its state changes only from absent to not
\* stale by a successful projection, from not stale to stale by a decrypt
\* failure, from stale to not stale by a successful re-decrypt, and from
\* present to absent when the source row is deleted; a decrypt failure
\* neither creates nor deletes a mirror row.
C12_MirrorRowStates == [](C12_State) /\ [][C12_Step]_vars

\* a decrypt failure left one mirror row stale, and for another id, whose row
\* does not decrypt, its notification was processed and no mirror row exists
C12_Witness ==
  /\ \E m \in mirror : m.stale /\ \A n \in chan : n.id # m.id
  /\ \E r \in enc :
       /\ MirrorOf(r.id) = {} /\ \A n \in chan : n.id # r.id
       /\ base64ToBytes(r.cipher_b64).k = ForeignDek

-----------------------------------------------------------------------------
(* Claims on the cipher helpers *)

\* C16: for every plaintext p and AAD a, decrypt(encrypt(p, a), a) returns p,
\* and decrypt(encrypt(p, a), a2) fails for every a2 different from a, an
\* absent a2 included.
C16_AadBound ==
  probe.pc = "opened" =>
    IF probe.aad2 = probe.aad
    THEN probe.out.ok /\ probe.out.plain = probe.plain
    ELSE ~probe.out.ok

\* the columns have no aad in their own encoding, and the salt column is text
ValidColumns(c) == c.aad # UNDEF /\ c.kdf_salt_b64 # NullB64

-----------------------------------------------------------------------------
(* Claims on useEncryptedQuery *)

\* the rows of the mirror the args ask for
Requested(args) ==
  {m \in SampleMirror :
     /\ m.user_id = Coalesce(args.userId, EMPTY)
     /\ args.bucketId = UNDEF \/ m.bucket_id = args.bucketId
     /\ ExtraConds(args.extraWhere) # <<>> => m.text = args.parameters[1]}

\* C19: useEncryptedQuery reads only from the pair's mirror table, always
\* filters by user_id, and filters by bucket as requested: no condition for an
\* undefined bucketId, only the rows with a NULL bucket_id for null, only the
\* rows with that bucket_id for a string; the parameters are the user id, the
\* bucket id when it is a string, then the caller's, as many as the
\* placeholders and in their order.
C19_MirrorQuery ==
  /\ query.pc \in {"watch", "done"} =>
       /\ query.sql.from = TodoPair.mirrorTable
       /\ query.sql.where[1] = Cond("user_id", EQ)
       /\ query.params[1] = Coalesce(query.args.userId, EMPTY)
       /\ Placeholders(query.sql.where, Len(query.sql.where)) = Len(query.params)
  /\ query.pc = "done" =>
       /\ query.res.ok
       /\ query.res.rows = Requested(query.args)

\* a query with a bucket string and a caller's parameter returned rows, and not
\* every row of the user
C19_Witness ==
  /\ query.pc = "done"
  /\ query.args.bucketId = "b1" /\ query.args.parameters = <<"b">>
  /\ query.params = <<"u1", "b1", "b">>
  /\ Cardinality(query.res.rows) = 1

-----------------------------------------------------------------------------
(* Claims on the decrypt effect and refreshFromServer *)

\* the run of slot d ended in this step
C11_Ended(d) == dec[d].pc = "run" /\ dec'[d].pc = "idle"

\* row r can be decrypted by the run of slot d
C11_Decrypts(d, r) ==
  dec[d].key # NoKey /\ DataDecrypt(dec[d].key, RowEnvelope(r), r.aad).ok

\* C11: when a run of the decrypt effect or of refreshFromServer processes its
\* rows and some of them fail to decrypt, no error leaves the loop and every row
\* that does decrypt is shown, as a synced item with its text and completed flag.
C11_BatchSurvivesFailure ==
  [][\A d \in DecSlots :
       C11_Ended(d) =>
         /\ ~DecryptBatch(dec[d].kind, dec[d].rows, dec[d].key, dec[d].crypto).threw
         /\ \A i \in 1..Len(dec[d].rows) :
              LET r == dec[d].rows[i]
                  plain == DataDecrypt(dec[d].key, RowEnvelope(r), r.aad).plain
              IN C11_Decrypts(d, r) =>
                   \E j \in 1..Len(items') :
                     items'[j] = Todo(r.id, plain.text, plain.completed, RowEnvelope(r), TRUE)
    ]_vars

\* the decrypt effect logged a batch of which one row decrypted and one failed,
\* and the row that decrypted is shown
C11_Witness ==
  /\ logKeyRef = LogKey(1, 1, 2, FALSE)
  /\ \E j \in 1..Len(items) : items[j].id \in RemoteIds /\ items[j].synced
  /\ Len(items) = 1

\* the rows the list query returns for the user and bucket of the add of slot o
C18_Rows(o) == SELECT_BY_USER_OPTIONAL_BUCKET_SQL(op[o].uid, op[o].bucket)

\* C18: once addTodo has inserted an item {text, completed: false} for a user
\* with a bucket, under the DEK the list resolved, the list query for that user
\* and bucket returns exactly one row of the item's id, which decrypts to the
\* inserted text and completed = false; it is the only row when the item is the
\* first of the list.
C18_InsertedRowIsListed ==
  \A o \in OpSlots :
    (op[o].pc = "written" /\ op[o].kind = "add" /\ op[o].bucket # EmptyBucket) =>
      LET rs == C18_Rows(o)
          hits == {i \in 1..Len(rs) : rs[i].id = op[o].id}
      IN /\ Cardinality(hits) = 1
         /\ \A i \in hits :
              DecryptTodo(rs[i], dataCrypto, cryptoProvider).item =
                <<Todo(op[o].id, op[o].text, FALSE, op[o].env, TRUE)>>
         /\ Cardinality(todos) = 1 => Len(rs) = 1

\* the first item of a list has been inserted
C18_Witness ==
  \E o \in OpSlots :
    /\ op[o].pc = "written" /\ op[o].kind = "add" /\ op[o].bucket # EmptyBucket
    /\ Cardinality(todos) = 1 /\ dataCrypto # NoKey /\ op[o].text \in Texts

-----------------------------------------------------------------------------
(* Claims on a failed unlock *)

C15_Errors == {"DecryptionFailed"} \cup CeremonyErrors

\* ensureDEKWrapped rejected and the init effect run of slot e ended in this step
C15_Failed(e) == init[e].pc = "ensure" /\ call[e].pc = "err" /\ init'[e].pc = "idle"

\* C15: when ensureDEKWrapped fails, for a wrong password, an unavailable
\* credential or a cancelled ceremony alike, the init effect catches the error,
\* the list stays displayed and locked (no DEK is held, the DEK is not marked
\* ready), and the in-flight mark is cleared so that a later attempt can run.
C15_UnlockFailureNonFatal ==
  /\ [][\A e \in InitSlots :
          C15_Failed(e) =>
            /\ call[e].err \in C15_Errors
            /\ caught' = call[e].err
            /\ dataCrypto' = NoKey /\ ~dekReadyRef' /\ ~initInFlight'
            /\ ready' /\ userId' = userId /\ items' = items]_vars
  /\ [](dataCrypto # NoKey => dekReadyRef)

\* after a cancelled ceremony, a later attempt unlocked the list
C15_Witness == caught = "UserCancelled" /\ dataCrypto # NoKey

-----------------------------------------------------------------------------
(* Claims on failed writes of the list's handlers *)

\* the write of slot o was rejected in this step: the handler ended, the table and
\* the upload queue are as they were (a DELETE that matches rows would remove them)
C14_Rejected(o) ==
  /\ op[o].pc = "write" /\ op'[o].pc = "idle"
  /\ todos' = todos /\ ps_crud' = ps_crud
  /\ op[o].kind = "remove" => RowsWhere(op[o].id, op[o].uid) # {}

\* the list shows item id as it was before the handler of slot o ran
C14_Restored(o) ==
  CASE op[o].kind = "add" -> \A i \in 1..Len(items') : items'[i].id # op[o].id
    [] op[o].kind = "remove" -> \E i \in 1..Len(items') : items'[i].id = op[o].id
    [] OTHER -> \A i \in 1..Len(items') :
                  items'[i].id = op[o].id =>
                    items'[i].completed = ~op[o].completed /\ items'[i].env # op[o].env

\* C14: when the storage write of an insert, update or delete is rejected, nothing
\* of the operation remains (the row is as before and the list shows the item as
\* before) and the failure is thrown to the handler's caller.
C14_FailedWriteAborts ==
  [][\A o \in OpSlots :
       C14_Rejected(o) => C14_Restored(o) /\ report'.id = op[o].id /\ report'.thrown]_vars

-----------------------------------------------------------------------------
(* Claims on the schema statements *)

C20_Step ==
  (ddlRuns >= 1 /\ ddlRuns' > ddlRuns) => (schema' = schema /\ todos' = todos)

\* C20: executing the schema statements a second or later time leaves the
\* schema and all stored rows exactly as they were; after the first execution
\* the schema is the table todos with its ten columns and the index on user_id.
C20_DdlIdempotent ==
  /\ [](ddlRuns >= 1 =>
          /\ schema.tables = {[name |-> "todos", cols |-> TodosColumns]}
          /\ schema.indexes = {[name |-> "idx_todos_user_id", table |-> "todos",
                                col |-> "user_id"]})
  /\ [][C20_Step]_vars

\* the statements were executed again on a table that holds rows
C20_Witness == ddlRuns >= 2 /\ Cardinality(todos) >= 2

-----------------------------------------------------------------------------
(* Claims on the upload connector *)

\* a transaction is completed in this step / the running call throws in this step
Completes == Len(uplog'.done) > Len(uplog.done)
Throws == uplog'.result = "threw" /\ uplog.result # "threw"

\* ops applied one after the other to the upstream tables up
RECURSIVE ApplyAll(_, _)
ApplyAll(up, ops) == IF ops = <<>> THEN up ELSE ApplyAll(ApplyTo(up, Head(ops)), Tail(ops))

\* C21: with a client configured, uploadData completes a queued transaction only
\* when every operation of it has gone through upstream in the running attempt;
\* when an operation fails the call ends by throwing, the upstream tables are
\* left as the operations before it made them, so that no later operation is
\* applied, and the transaction is still at the head of the queue.
C21_CompleteAfterAllOps ==
  [][ /\ (Completes /\ client) => uplog.applied = Head(ps_crud)
      /\ Throws => /\ upl.pc = "ops" /\ upl'.pc = "idle"
                   /\ ps_crud' = ps_crud
                   /\ upstream' = upstream
                   /\ uplog'.applied = uplog.applied
                   /\ Len(uplog.applied) < Len(Head(ps_crud))
      /\ upl.pc = "idle" => upstream' = upstream ]_vars

\* the second of three operations has failed: the first is applied, the third is not
C21_Witness ==
  /\ uplog.result = "threw"
  /\ Len(uplog.applied) = 1
  /\ Len(Head(ps_crud)) > 2
  /\ upstream = ApplyAll(uplog.base, uplog.applied)
  /\ upstream # ApplyAll(uplog.base, Head(ps_crud))

\* C22: without an upstream client configured, uploadData sends nothing upstream
\* and changes nothing there, never throws, takes the transactions off the queue
\* from the head, each one completed, and returns only with the queue empty.
C22_DrainWithoutClient ==
  [][ ~client =>
        /\ sent' = sent
        /\ upstream' = upstream
        /\ ~Throws
        /\ ps_crud' # ps_crud =>
             /\ ps_crud' = Tail(ps_crud)
             /\ uplog'.done = Append(uplog.done, Head(ps_crud))
        /\ (uplog'.result = "returned" /\ upl'.pc = "idle") => ps_crud' = <<>> ]_vars

\* a call without a client has returned after completing two transactions
C22_Witness ==
  /\ ~client
  /\ uplog.result = "returned"
  /\ Len(uplog.done) >= 2
  /\ ps_crud = <<>>
  /\ sent = {}

\* C23: when no upstream operation fails and nothing is written locally, a
\* running call to uploadData ends by returning with the queue empty, and the
\* transactions are completed from the head of the queue, each exactly once:
\* the completed transactions followed by the queue are what was queued.
C23_UploadTerminates ==
  /\ [][uplog'.done \o ps_crud' = uplog.done \o ps_crud]_vars
  /\ (upl.pc # "idle") ~> (upl.pc = "idle" /\ ps_crud = <<>> /\ uplog.result = "returned")

\* a call with a client has returned after completing two transactions
C23_Witness ==
  /\ client
  /\ upl.pc = "idle"
  /\ uplog.result = "returned"
  /\ Len(uplog.done) >= 2
  /\ ps_crud = <<>>

\* every op of the head transaction has gone through in the running attempt
AllApplied == upl.pc = "ops" /\ upl.i > Len(Head(ps_crud))

\* C24: when every operation of the head transaction has gone through, after
\* however many failed attempts that applied some of them before, the upstream
\* tables are what applying the transaction exactly once to the tables of the
\* first attempt gives.
C24_RetryIdempotent ==
  AllApplied => upstream = ApplyAll(uplog.base, Head(ps_crud))

\* the retry of a transaction of three operations has gone through, its first
\* two operations applied a second time, where the transaction changes the tables
C24_Witness ==
  /\ AllApplied
  /\ uplog.retried
  /\ Len(Head(ps_crud)) > 2
  /\ upstream # ApplyAll(uplog.base, SubSeq(Head(ps_crud), 1, 2))
  /\ upstream # uplog.base

-----------------------------------------------------------------------------
(* Claims on the guard of the DEK init effect *)

\* the runs of the effect that are inside its try block
InTry == {e \in InitSlots : init[e].pc \in {"counts", "ensure"}}

C26_Settled ==
  /\ ready /\ ~initPending
  /\ \A e \in InitSlots : init[e].pc = "idle"
  /\ authUser # NULL /\ userId = authUser
  /\ caught = NULL

\* what ensureDEKWrapped resolves for the props TodoList is rendered with
C26_Resolved ==
  LET row == findWrappedKey(userId, ProviderKind, activeKeyId)
  IN IF row = NoRow THEN [ok |-> FALSE, plain |-> NoKey]
     ELSE ProviderDecrypt(cryptoProvider, columnsToEnvelope(row), row.aad)

\* C26: whenever the DEK init effects of TodoList have all settled, none with a
\* failure, the DEK in use is the one ensureDEKWrapped resolves for the current
\* crypto provider, providerKind and activeKeyId.
C26_DekOfCurrentProps ==
  C26_Settled => C26_Resolved.ok /\ dataCrypto = C26_Resolved.plain

-----------------------------------------------------------------------------
(* Claims on the displayed list *)

\* the ids of the rows that the running decrypt effect d decrypts
DecryptedIds(d) ==
  {dec[d].rows[i].id : i \in {n \in 1..Len(dec[d].rows) :
      DecryptTodo(dec[d].rows[n], dec[d].key, dec[d].crypto).out = "ok"}}

\* the decrypt effect d sets the list in this step
EffectApplies(d) == dec[d].pc = "run" /\ dec[d].kind = "effect" /\ dec'[d].pc = "idle"

\* C27: when a run of the decrypt effect sets the list, every item that was
\* displayed unsynced and whose id is not among the decrypted rows is still in
\* the list, before every decrypted row, and every decrypted row is in the list
\* as a synced item.
C27_OptimisticPreserved ==
  [][\A d \in DecSlots : EffectApplies(d) =>
       /\ \A i \in 1..Len(items) :
            (~items[i].synced /\ items[i].id \notin DecryptedIds(d)) =>
              \E j \in 1..Len(items') :
                /\ items'[j] = items[i]
                /\ \A k \in 1..Len(items') : items'[k].id \in DecryptedIds(d) => j < k
       /\ \A id \in DecryptedIds(d) :
            \E k \in 1..Len(items') : items'[k].id = id /\ items'[k].synced]_vars

\* a run of the effect is about to set the list: it has decrypted a row, and an
\* optimistic item whose row is not among its rows is displayed
C27_Witness ==
  \E d \in DecSlots :
    /\ dec[d].pc = "run" /\ dec[d].kind = "effect"
    /\ DecryptedIds(d) # {}
    /\ \E i \in 1..Len(items) : ~items[i].synced /\ items[i].id \notin DecryptedIds(d)

ItemIds == {items[i].id : i \in 1..Len(items)}

\* C28: in every reachable state the displayed list holds at most one item per
\* todo id, whatever the interleaving of addTodo, toggleCompleted, removeTodo,
\* refreshFromServer and the runs of the decrypt effect.
C28_OneItemPerId ==
  \A i \in 1..Len(items), j \in 1..Len(items) : items[i].id = items[j].id => i = j

\* the decrypt effect has put the row of a todo in the list while the addTodo
\* that inserted it has not yet marked its item synced
C28_Witness ==
  \E o \in OpSlots :
    /\ op[o].pc = "written" /\ op[o].kind = "add"
    /\ \E i \in 1..Len(items) : items[i].id = op[o].id /\ items[i].synced
    /\ Len(items) > 1

\* the list is what a run of the decrypt effect on the current rows of the live
\* query makes of it, and nothing is running
C29_Refreshed ==
  /\ \A o \in OpSlots : op[o].pc = "idle"
  /\ \A d \in DecSlots : dec[d].pc = "idle"
  /\ live.loaded /\ ~live.isFetching /\ live.rows = LiveResult
  /\ LET res == DecryptBatch("effect", live.rows, dataCrypto, cryptoProvider)
         serverIds == {res.items[i].id : i \in 1..Len(res.items)}
     IN items = SelectSeq(items, LAMBDA t : ~t.synced /\ t.id \notin serverIds) \o res.items

\* C29: with a user signed in and the DEK ready, every todo that addTodo has
\* stored and that has not been removed is in the displayed list whenever the
\* list has been refreshed from the current rows of the live query, whatever the
\* bucket field held when it was added.
C29_AddedStaysListed ==
  (C29_Refreshed /\ userId # NULL /\ dataCrypto # NoKey) =>
    \A r \in todos : r.user_id = userId => HasItem(r.id)

-----------------------------------------------------------------------------
(* Claims on the live query's statement *)

RowSet(rows) == {rows[i] : i \in 1..Len(rows)}

\* C30: SELECT_BY_USER_OPTIONAL_BUCKET_SQL with an empty second parameter
\* returns every row of the user, and with a value exactly the rows of the user
\* whose bucket_id equals that value.
C30_OptionalBucket ==
  (live.loaded /\ ~live.isFetching) =>
    RowSet(live.rows) =
      IF bucketId = EmptyBucket
      THEN {r \in todos : r.user_id = userId}
      ELSE {r \in todos : r.user_id = userId /\ r.bucket_id = bucketId}

-----------------------------------------------------------------------------
(* Claims on the decrypt effect while the live query fetches *)

\* the render shows a fetch in flight and no rows
FetchingEmpty == live.loaded /\ live.isFetching /\ live.rows = <<>>

\* a run of the effect that got past its two returns holds rows, or was started
\* while no fetch was in flight
PastReturns(d) ==
  (dec[d].pc = "run" /\ dec[d].kind = "effect") =>
    ~(dec[d].isFetching /\ dec[d].rows = <<>>)

\* C31: a run of the decrypt effect in a render with isFetching and no rows
\* leaves the displayed items (and the logged counts) unchanged: no run gets to
\* its loop with these values, and while the render shows them and no earlier
\* run of the effect is pending, only refreshFromServer changes the list.
C31_FetchingEmptyKeepsItems ==
  /\ [](\A d \in DecSlots : PastReturns(d))
  /\ [][(FetchingEmpty /\ dec["d1"].pc = "idle" /\ dec'["r1"] = dec["r1"])
          => (items' = items /\ logKeyRef' = logKeyRef)]_vars

\* the effect has returned in such a render with a synced item on display
C31_Witness ==
  /\ FetchingEmpty
  /\ dec["d1"] = ReturnedDec
  /\ \E i \in 1..Len(items) : items[i].synced

-----------------------------------------------------------------------------
(* Claims on the rows of a locked list *)

\* the rows of the run of slot d that are encrypted with the data key
C32_RawRows(d) ==
  {dec[d].rows[i] : i \in {n \in 1..Len(dec[d].rows) :
                             IsRaw(RowEnvelope(dec[d].rows[n]).header.alg)}}

\* the run of slot d of a locked list skips row r silently
C32_Skipped(d, r) ==
  LET one == LoopBody(dec[d].kind, r, dec[d].key, dec[d].crypto)
      by == IF dec[d].kind = "refresh" THEN RefreshDecryptor(r, dec[d].key)
            ELSE EffectDecryptor(r, dec[d].key)
  IN /\ one.item = <<>>
     /\ dec[d].kind = "effect" => one.out # "fail"
     /\ by # "crypto"

\* the decrypt effect alone: its runs without a DEK skip the rows encrypted with
\* the data key
C32_EffectSkips ==
  (dec["d1"].pc = "run" /\ dec["d1"].key = NoKey) =>
    \A r \in C32_RawRows("d1") : C32_Skipped("d1", r)

\* the decrypt effect runs without a DEK over a row encrypted with the data key
C32_EffectLocked ==
  dec["d1"].pc = "run" /\ dec["d1"].key = NoKey /\ C32_RawRows("d1") # {}

\* C32: while the list holds no DEK, a run of the decrypt effect or of
\* refreshFromServer skips every row whose algorithm contains "/raw": the row is
\* not displayed, not counted as a failure, and not handed to the wrapping
\* provider's decrypt.
C32_LockedSkipsRaw ==
  \A d \in DecSlots :
    (dec[d].pc = "run" /\ dec[d].key = NoKey) =>
      \A r \in C32_RawRows(d) : C32_Skipped(d, r)

-----------------------------------------------------------------------------
(* Claims on the synced flag of the displayed items *)

\* table todos holds a row with the id and the envelope of item t
C33_Stored(t) == \E r \in todos : r.id = t.id /\ RowEnvelope(r) = t.env

\* C33: every item displayed as synced has a row with its id in table todos
\* whose envelope is the item's envelope; addTodo and toggleCompleted set the
\* flag only after their write succeeded and leave it unset without a user or
\* when the write fails.
C33_SyncedIsStored ==
  \A i \in 1..Len(items) : items[i].synced => C33_Stored(items[i])

====

